---- MODULE Spec2Model ----
(***************************************************************************)
(* Model of the Twitch chat downloader (chat_replay_downloader/sites/      *)
(* twitch.py): the live IRC read loop, the IRC line parser, the paginated  *)
(* replay retrieval and the message filter.                                *)
(*                                                                         *)
(* Text is modelled as sequences of tokens.  A token is either one of the  *)
(* characters the code and its regular expression distinguish ("@", " ",   *)
(* ":", "#", ";", "=", ",", "/", CR, LF), the literal "tmi.twitch.tv", or  *)
(* a word: a run of other characters that no operation of the code looks   *)
(* into.                                                                   *)
(***************************************************************************)
EXTENDS Integers, Sequences, FiniteSets, TLC

VARIABLES
    entry,          \* which code runs: "parse", "live", "replay", "irc",
                    \* "client", "badges" or "subtitles"
    \* ---- the parser, applied to one line
    line,           \* the raw line given to _MESSAGE_REGEX and _parse_irc_item
    parsed,         \* what _parse_irc_item gave (NotParsed before the call)
    \* ---- the live read loop (_get_chat_messages_by_stream_id)
    stream,         \* everything the server sends
    pos,            \* how much of stream recv has returned
    readbuffer,     \* the local readbuffer
    matches,        \* the matches the for loop has still to go through
    handed,         \* groups of every match given to _parse_irc_item, in order
    sent,           \* what the last step wrote to the socket
    time_since_last_message,
    read_timeouts,  \* the reads that timed out since the last one that gave data
    pongs,          \* the pongs written so far
    lpc,            \* where it is: "connect", "recv", "for", "ping", "raised"
    connection,     \* the ordinal of the TwitchChatIRC object in use (0: none)
    sockets,        \* the connections whose socket is open
    connect_attempts, \* attempt_number of create_connection
    last_ping_time,
    \* ---- the replay retrieval (_get_chat_messages_by_vod_id)
    offset,         \* the offset argument (a clip's videoOffsetSeconds, else 0)
    max_duration,   \* the max_duration argument (a clip's duration, else None)
    cursor,         \* the cursor of the page to ask for (0: the empty cursor)
    info,           \* the last page response
    idx,            \* how many comments of info the for loop has taken
    comment,        \* the last comment the for loop took from a page
    data,           \* what _parse_item gave for the last comment taken
    attempt_number, \* the ordinal attempts() gave last
    page_requests,  \* the requests sent for the current page
    url,            \* the cursor and offset of the last request sent
    rpc,            \* "fetch", "page", "returned" or "raised"
    \* ---- a TwitchChatIRC object on its own
    _CURRENT_CHANNEL, \* the attribute of the object in use
    calls,          \* the names join_channel was called with, in order
    \* ---- the client: get_chat and the badge catalog
    handler,        \* the function get_chat chose and the id it passes
    chat,           \* the Chat object returned (NoChat: none)
    class_BADGE_INFO, \* the class attribute TwitchChatDownloader._BADGE_INFO
    fetched,        \* the catalog each instance got at its construction
    resolved,       \* the last instance that resolved a badge, and the result
    \* ---- the subtitle writer (srt_subtitle_downloader.py)
    chat_messages,  \* the list of ChatMessage main holds
    unsmoothed,     \* chat_messages as parse_chat_messages gave it
    subtitle_lines, \* what parse_srt_lines or parse_ass_lines returned
    args,           \* the parsed command line
    spc,            \* "parsed", "smoothed", "srt", "ass" or "raised"
    \* ---- both retrievals
    clock,          \* seconds gone by in reads and requests
    params,         \* the caller's parameters
    yielded,        \* the event the last step yielded (NoEvent: none)
    raised          \* the name of the exception that left the generator

vars == <<entry, line, parsed, stream, pos, readbuffer, matches, handed, sent,
          time_since_last_message, read_timeouts, pongs, lpc, connection, sockets, connect_attempts,
          last_ping_time, offset, max_duration, cursor, info, idx, comment,
          data, attempt_number, page_requests, url, rpc, _CURRENT_CHANNEL,
          calls, handler, chat, class_BADGE_INFO, fetched, resolved,
          chat_messages, unsmoothed, subtitle_lines, args, spc, clock, params,
          yielded, raised>>

parseVars  == <<line, parsed>>
liveVars   == <<stream, pos, readbuffer, matches, handed, sent,
                time_since_last_message, read_timeouts, pongs, lpc, connection, sockets,
                connect_attempts, last_ping_time, _CURRENT_CHANNEL>>
replayVars == <<offset, max_duration, cursor, info, idx, comment, data,
                attempt_number, page_requests, url, rpc>>
clientVars == <<handler, chat, class_BADGE_INFO, fetched, resolved>>
subsVars   == <<chat_messages, unsmoothed, subtitle_lines, args, spc>>

-----------------------------------------------------------------------------
(* Tokens and character classes of the regular expression.                 *)

CR == "\r"
LF == "\n"
TMI == "tmi.twitch.tv"

\* \s of the regular expression
IsSpace(c) == c \in {" ", CR, LF}

Min(S) == CHOOSE x \in S : \A y \in S : x <= y
Max(S) == CHOOSE x \in S : \A y \in S : x >= y

\* text[i:j] of Python on 1-based positions: the tokens i .. j-1
Slice(b, i, j) == [k \in 1..(j - i) |-> b[i + k - 1]]

\* The first position >= i that is past the end of b or holds LF: where "." stops.
RECURSIVE LineEnd(_, _)
LineEnd(b, i) == IF i > Len(b) \/ b[i] = LF THEN i ELSE LineEnd(b, i + 1)

\* Where a greedy \s+ , \S+ or [^\r\n]* that starts at i stops.
RECURSIVE SpaceRunEnd(_, _)
SpaceRunEnd(b, i) == IF i > Len(b) \/ ~IsSpace(b[i]) THEN i ELSE SpaceRunEnd(b, i + 1)
RECURSIVE NonSpaceRunEnd(_, _)
NonSpaceRunEnd(b, i) == IF i > Len(b) \/ IsSpace(b[i]) THEN i ELSE NonSpaceRunEnd(b, i + 1)
RECURSIVE NotCRLFRunEnd(_, _)
NotCRLFRunEnd(b, i) ==
    IF i > Len(b) \/ b[i] \in {CR, LF} THEN i ELSE NotCRLFRunEnd(b, i + 1)

\* "x in text" of Python for a two-token needle, and text.endswith
Contains2(b, x, y) == \E j \in 1..(Len(b) - 1) : b[j] = x /\ b[j + 1] = y
EndsWithCRLF(b) == Len(b) >= 2 /\ b[Len(b) - 1] = CR /\ b[Len(b)] = LF

-----------------------------------------------------------------------------
\* _MESSAGE_REGEX, compiled with re.MULTILINE:
\*   ^@(.+?(?=\s+:)).*tmi\.twitch\.tv\s+(\S+)(?:.+#\S+)?(?:.:)*([^\r\n]*)
\* as a backtracking matcher: the first alternative, in the engine's order of
\* preference, that lets the whole pattern match.

\* (?=\s+:) at position e
Lookahead(b, e) ==
    LET s == SpaceRunEnd(b, e)
    IN  s > e /\ s <= Len(b) /\ b[s] = ":"

\* tmi\.twitch\.tv\s+(\S+) can match with the literal at p
TailOK(b, p) ==
    /\ p <= Len(b) /\ b[p] = TMI
    /\ p + 1 <= Len(b) /\ IsSpace(b[p + 1])
    /\ SpaceRunEnd(b, p + 1) <= Len(b)

\* .* from e, then the literal: the places the literal can be ("." stops at LF)
ValidP(b, e) == {p \in e..(LineEnd(b, e) - 1) : TailOK(b, p)}

\* the ends of group 1 (.+? takes at least one token, none of them LF)
ValidE1(b, i) ==
    {e \in (i + 2)..LineEnd(b, i + 1) : Lookahead(b, e) /\ ValidP(b, e) # {}}

\* ^@ at i
StartsAt(b, i) ==
    /\ i <= Len(b) /\ b[i] = "@"
    /\ (i = 1 \/ b[i - 1] = LF)

MatchesAt(b, i) == StartsAt(b, i) /\ ValidE1(b, i) # {}

\* (?:.+#\S+)? from r: the "#" the greedy .+ stops before
HashSet(b, r) ==
    {h \in (r + 1)..(LineEnd(b, r) - 1) :
        b[h] = "#" /\ h + 1 <= Len(b) /\ ~IsSpace(b[h + 1])}

AfterChannel(b, r) ==
    IF HashSet(b, r) = {} THEN r ELSE NonSpaceRunEnd(b, Max(HashSet(b, r)) + 1)

\* (?:.:)* from j
RECURSIVE ColonPairsEnd(_, _)
ColonPairsEnd(b, j) ==
    IF j + 1 <= Len(b) /\ b[j] # LF /\ b[j + 1] = ":"
    THEN ColonPairsEnd(b, j + 2)
    ELSE j

\* The match object of a match that starts at i: span and the three groups.
MatchAt(b, i) ==
    LET e1 == Min(ValidE1(b, i))          \* .+? : the shortest
        p  == Max(ValidP(b, e1))          \* .*  : the longest
        q  == SpaceRunEnd(b, p + 1)
        r  == NonSpaceRunEnd(b, q)
        r2 == ColonPairsEnd(b, AfterChannel(b, r))
        r3 == NotCRLFRunEnd(b, r2)
    IN  [start |-> i, end |-> r3,
         g1 |-> Slice(b, i + 1, e1),
         g2 |-> Slice(b, q, r),
         g3 |-> Slice(b, r2, r3)]

\* list(_MESSAGE_REGEX.finditer(b)), scanning from position from
RECURSIVE FindIter(_, _)
FindIter(b, from) ==
    LET starts == {i \in from..Len(b) : MatchesAt(b, i)}
    IN  IF starts = {} THEN <<>>
        ELSE LET m == MatchAt(b, Min(starts))
             IN  <<m>> \o FindIter(b, m.end)

Groups(m) == [g1 |-> m.g1, g2 |-> m.g2, g3 |-> m.g3]

-----------------------------------------------------------------------------
(* Python values.  Every value is a record of the same shape, so that any  *)
(* two can be compared: t is the type, s the tokens of a str, n the        *)
(* decimal numeral of an int (Python's ints are unbounded), b a bool, d a  *)
(* dict (a function from keys to values) and l a list.                     *)

EmptyDict == [k \in {} |-> 0]

Val(t, s, n, b, d, l) ==
    [t |-> t, s |-> s, n |-> n, b |-> b, d |-> d, l |-> l, i |-> 0]
NoneV    == Val("none", <<>>, "", FALSE, EmptyDict, <<>>)
StrV(s)  == Val("str", s, "", FALSE, EmptyDict, <<>>)
IntV(n)  == Val("int", <<>>, n, FALSE, EmptyDict, <<>>)
BoolV(b) == Val("bool", <<>>, "", b, EmptyDict, <<>>)
DictV(d) == Val("dict", <<>>, "", FALSE, d, <<>>)
ListV(l) == Val("list", <<>>, "", FALSE, EmptyDict, l)
\* a JSON number of the backend, and the seconds of the caller's parameters
NumV(i)  == [Val("num", <<>>, "", FALSE, EmptyDict, <<>>) EXCEPT !.i = i]

\* bool(v) of Python
Truthy(v) ==
    CASE v.t = "none" -> FALSE
      [] v.t = "str"  -> v.s # <<>>
      [] v.t = "int"  -> v.n # "0"
      [] v.t = "num"  -> v.i # 0
      [] v.t = "bool" -> v.b
      [] v.t = "dict" -> DOMAIN v.d # {}
      [] v.t = "list" -> v.l # <<>>

\* dict operations
DictSet(d, k, v) == [x \in (DOMAIN d) \cup {k} |-> IF x = k THEN v ELSE d[x]]
DictGet(d, k) == IF k \in DOMAIN d THEN d[k] ELSE NoneV
DictGetOr(d, k, default) == IF k \in DOMAIN d THEN d[k] ELSE default
DictDel(d, k) == [x \in (DOMAIN d) \ {k} |-> d[x]]

\* The decimal numerals the model reads, with the sign of each.  The last
\* one is the tmi-sent-ts of the line in the code's comment (line 1005).
NegativeNumerals == {"-1"}
PositiveNumerals == {"1", "5", "6", "600", "611966876", "1607447245754"}
Numerals == NegativeNumerals \cup {"0"} \cup PositiveNumerals

\* n * 1000 on decimal numerals
Times1000(n) == IF n = "0" THEN "0" ELSE n \o "000"

\* ''.join(tokens): the str a tag key is
RECURSIVE Join(_)
Join(toks) == IF toks = <<>> THEN "" ELSE Head(toks) \o Join(Tail(toks))

\* The position of the first sep in toks at or after i (Len + 1: none).
FirstAt(toks, sep, i) ==
    Min({j \in i..(Len(toks) + 1) : j = Len(toks) + 1 \/ toks[j] = sep})

\* toks.split(sep): always at least one piece
RECURSIVE SplitFrom(_, _, _)
SplitFrom(toks, sep, i) ==
    LET j == FirstAt(toks, sep, i)
    IN  IF j > Len(toks) THEN <<Slice(toks, i, j)>>
        ELSE <<Slice(toks, i, j)>> \o SplitFrom(toks, sep, j + 1)

Split(toks, sep) == SplitFrom(toks, sep, 1)

\* toks.split(sep, 1)
Split1(toks, sep) ==
    LET j == FirstAt(toks, sep, 1)
    IN  IF j > Len(toks) THEN <<toks>>
        ELSE <<Slice(toks, 1, j), Slice(toks, j + 1, Len(toks) + 1)>>

\* str.lower on the words of the model
LowerWord(w) == IF w = "Sumz5" THEN "sumz5" ELSE w
Lower(toks) == [k \in 1..Len(toks) |-> LowerWord(toks[k])]

\* utils.replace_with_underscores(key, '-') on the keys of the model
ReplaceWithUnderscores(k) ==
    CASE k = "x-unknown" -> "x_unknown"
      [] k = "vip-status" -> "vip_status"
      [] OTHER -> k

\* utils.int_or_none(v, default): int(v), or default when int() raises
int_or_none(v, default) ==
    CASE v.t = "str" /\ Len(v.s) = 1 /\ v.s[1] \in Numerals -> IntV(v.s[1])
      [] v.t = "bool" -> IntV(IF v.b THEN "1" ELSE "0")
      [] v.t = "int" -> v
      [] OTHER -> default

\* What an operation gives when it raises: the exception's name.
Raise(name) == Val("raise", <<name>>, "", FALSE, EmptyDict, <<>>)
IsRaise(v) == v.t = "raise"

-----------------------------------------------------------------------------
(* The static tables of TwitchChatDownloader.  A remapping table maps a    *)
(* raw key to <<canonical key, transform>>; the transform "" stands for a  *)
(* bare canonical name (the value is copied).                              *)

_SUBSCRIPTION_TYPES ==
    "Prime" :> "Prime" @@
    "1000" :> "Tier 1" @@
    "2000" :> "Tier 2" @@
    "3000" :> "Tier 3"

_AUTHOR_REMAPPING ==
    "_id" :> <<"id", "parse_int">> @@
    "name" :> <<"name", "">> @@
    "display_name" :> <<"display_name", "">> @@
    "logo" :> <<"images", "parse_author_images">> @@
    "type" :> <<"type", "">> @@
    "created_at" :> <<"created_at", "parse_timestamp">> @@
    "bio" :> <<"bio", "">>

_COMMENT_REMAPPING ==
    "_id" :> <<"message_id", "">> @@
    "created_at" :> <<"timestamp", "parse_timestamp">> @@
    "commenter" :> <<"author", "parse_commenter">> @@
    "content_offset_seconds" :> <<"time_in_seconds", "">> @@
    "source" :> <<"source", "">> @@
    "state" :> <<"state", "">> @@
    "message" :> <<"message_info", "parse_message_info">>

_MESSAGE_PARAM_REMAPPING ==
    "msg-id" :> <<"message_type", "">> @@
    "msg-param-cumulative-months" :> <<"cumulative_months", "parse_int">> @@
    "msg-param-months" :> <<"months", "parse_int">> @@
    "msg-param-displayName" :> <<"raider_display_name", "">> @@
    "msg-param-login" :> <<"raider_name", "">> @@
    "msg-param-viewerCount" :> <<"number_of_raiders", "parse_int">> @@
    "msg-param-promo-name" :> <<"promotion_name", "">> @@
    "msg-param-promo-gift-total" :> <<"number_of_gifts_given_during_promo", "">> @@
    "msg-param-recipient-id" :> <<"gift_recipient_id", "">> @@
    "msg-param-recipient-user-name" :> <<"gift_recipient_display_name", "">> @@
    "msg-param-recipient-display-name" :> <<"gift_recipient_display_name", "">> @@
    "msg-param-gift-months" :> <<"number_of_months_gifted", "parse_int">> @@
    "msg-param-sender-login" :> <<"gifter_name", "">> @@
    "msg-param-sender-name" :> <<"gifter_display_name", "">> @@
    "msg-param-should-share-streak" :> <<"user_wants_to_share_streaks", "parse_bool">> @@
    "msg-param-streak-months" :> <<"number_of_consecutive_months_subscribed", "parse_int">> @@
    "msg-param-sub-plan" :> <<"subscription_type", "parse_subscription_type">> @@
    "msg-param-sub-plan-name" :> <<"subscription_plan_name", "">> @@
    "msg-param-ritual-name" :> <<"ritual_name", "">> @@
    "msg-param-threshold" :> <<"bits_badge_tier", "">> @@
    "msg-param-multimonth-duration" :> <<"multimonth_duration", "parse_int">> @@
    "msg-param-multimonth-tenure" :> <<"multimonth_tenure", "parse_int">> @@
    "msg-param-was-gifted" :> <<"was_gifted", "parse_bool_text">> @@
    "msg-param-gifter-id" :> <<"gifter_id", "">> @@
    "msg-param-gifter-login" :> <<"gifter_name", "">> @@
    "msg-param-gifter-name" :> <<"gifter_display_name", "">> @@
    "msg-param-anon-gift" :> <<"was_anonymous_gift", "parse_bool_text">> @@
    "msg-param-gift-month-being-redeemed" :> <<"gift_months_being_redeemed", "parse_int">> @@
    "msg-param-domain" :> <<"domain", "">> @@
    "msg-param-selected-count" :> <<"selected_count", "parse_int">> @@
    "msg-param-trigger-type" :> <<"trigger_type", "">> @@
    "msg-param-total-reward-count" :> <<"total_reward_count", "parse_int">> @@
    "msg-param-trigger-amount" :> <<"trigger_amount", "parse_int">> @@
    "msg-param-origin-id" :> <<"origin_id", "">> @@
    "msg-param-sender-count" :> <<"sender_count", "parse_int">> @@
    "msg-param-mass-gift-count" :> <<"mass_gift_count", "parse_int">> @@
    "msg-param-prior-gifter-anonymous" :> <<"prior_gifter_anonymous", "parse_bool_text">> @@
    "msg-param-prior-gifter-user-name" :> <<"prior_gifter_name", "">> @@
    "msg-param-prior-gifter-display-name" :> <<"prior_gifter_display_name", "">> @@
    "msg-param-prior-gifter-id" :> <<"prior_gifter_id", "">> @@
    "msg-param-fun-string" :> <<"fun_string", "">> @@
    "msg-param-profileImageURL" :> <<"profile_image_url", "">>

_IRC_REMAPPING ==
    "ban-duration" :> <<"ban_duration", "parse_int">> @@
    "login" :> <<"author_name", "">> @@
    "target-msg-id" :> <<"target_message_id", "">> @@
    "emote-sets" :> <<"emote_sets", "">> @@
    "color" :> <<"colour", "">> @@
    "display-name" :> <<"author_display_name", "">> @@
    "user-id" :> <<"author_id", "parse_int">> @@
    "badge-info" :> <<"author_badge_metadata", "parse_badges">> @@
    "badges" :> <<"author_badges", "parse_badges">> @@
    "bits" :> <<"bits", "parse_int">> @@
    "id" :> <<"message_id", "">> @@
    "mod" :> <<"is_moderator", "parse_bool">> @@
    "room-id" :> <<"channel_id", "parse_int">> @@
    "tmi-sent-ts" :> <<"timestamp", "multiply_by_1000">> @@
    "subscriber" :> <<"is_subscriber", "parse_bool">> @@
    "turbo" :> <<"is_turbo", "parse_bool">> @@
    "client-nonce" :> <<"client_nonce", "">> @@
    "user-type" :> <<"user_type", "">> @@
    "reply-parent-msg-body" :> <<"in_reply_to_message", "decode_pseudo_BNF">> @@
    "reply-parent-user-id" :> <<"in_reply_to_author_id", "parse_int">> @@
    "reply-parent-msg-id" :> <<"in_reply_to_message_id", "">> @@
    "reply-parent-display-name" :> <<"in_reply_to_author_display_name", "">> @@
    "reply-parent-user-login" :> <<"in_reply_to_author_name", "">> @@
    "custom-reward-id" :> <<"custom_reward_id", "">> @@
    "emotes" :> <<"emotes", "">> @@
    "flags" :> <<"flags", "">> @@
    "emote-only" :> <<"emote_only", "parse_bool">> @@
    "followers-only" :> <<"follower_only", "parse_int">> @@
    "r9k" :> <<"r9k_mode", "parse_bool">> @@
    "slow" :> <<"slow_mode", "parse_int">> @@
    "subs-only" :> <<"subscriber_only", "parse_bool">> @@
    "rituals" :> <<"rituals_enabled", "parse_bool">> @@
    "system-msg" :> <<"system_message", "">> @@
    "number-of-viewers" :> <<"number_of_viewers", "">> @@
    "target-user-id" :> <<"target_author_id", "parse_int">> @@
    _MESSAGE_PARAM_REMAPPING

_ACTION_TYPE_REMAPPING ==
    "CLEARCHAT" :> "clear_chat" @@
    "CLEARMSG" :> "delete_message" @@
    "GLOBALUSERSTATE" :> "successful_login" @@
    "PRIVMSG" :> "text_message" @@
    "ROOMSTATE" :> "room_state" @@
    "USERNOTICE" :> "user_notice" @@
    "USERSTATE" :> "user_state" @@
    "HOSTTARGET" :> "host_target" @@
    "NOTICE" :> "notice" @@
    "RECONNECT" :> "reconnect"

_MESSAGE_GROUP_REMAPPINGS ==
    "messages" :>
        ("highlighted-message" :> "highlighted_message" @@
         "skip-subs-mode-message" :> "send_message_in_subscriber_only_mode") @@
    "bits" :>
        ("bitsbadgetier" :> "bits_badge_tier") @@
    "subscriptions" :>
        ("sub" :> "subscription" @@
         "resub" :> "resubscription" @@
         "subgift" :> "subscription_gift" @@
         "anonsubgift" :> "anonymous_subscription_gift" @@
         "anonsubmysterygift" :> "anonymous_mystery_subscription_gift" @@
         "submysterygift" :> "mystery_subscription_gift" @@
         "extendsub" :> "extend_subscription" @@
         "standardpayforward" :> "standard_pay_forward" @@
         "communitypayforward" :> "community_pay_forward" @@
         "primecommunitygiftreceived" :> "prime_community_gift_received") @@
    "upgrades" :>
        ("primepaidupgrade" :> "prime_paid_upgrade" @@
         "giftpaidupgrade" :> "gift_paid_upgrade" @@
         "rewardgift" :> "reward_gift" @@
         "anongiftpaidupgrade" :> "anonymous_gift_paid_upgrade") @@
    "raids" :>
        ("raid" :> "raid" @@
         "unraid" :> "unraid") @@
    "hosts" :>
        ("host_on" :> "start_host" @@
         "host_off" :> "end_host" @@
         "bad_host_hosting" :> "bad_host_hosting" @@
         "bad_host_rate_exceeded" :> "bad_host_rate_exceeded" @@
         "bad_host_error" :> "bad_host_error" @@
         "hosts_remaining" :> "hosts_remaining" @@
         "not_hosting" :> "not_hosting" @@
         "host_target_went_offline" :> "host_target_went_offline") @@
    "rituals" :>
        ("ritual" :> "ritual") @@
    "room_states" :>
        ("slow_on" :> "enable_slow_mode" @@
         "slow_off" :> "disable_slow_mode" @@
         "already_slow_on" :> "slow_mode_already_on" @@
         "already_slow_off" :> "slow_mode_already_off" @@
         "subs_on" :> "enable_subscriber_only_mode" @@
         "subs_off" :> "disable_subscriber_only_mode" @@
         "already_subs_on" :> "sub_mode_already_on" @@
         "already_subs_off" :> "sub_mode_already_off" @@
         "emote_only_on" :> "enable_emote_only_mode" @@
         "emote_only_off" :> "disable_emote_only_mode" @@
         "already_emote_only_on" :> "emote_only_already_on" @@
         "already_emote_only_off" :> "emote_only_already_off" @@
         "r9k_on" :> "enable_r9k_mode" @@
         "r9k_off" :> "disable_r9k_mode" @@
         "already_r9k_on" :> "r9k_mode_already_on" @@
         "already_r9k_off" :> "r9k_mode_already_off" @@
         "followers_on" :> "enable_follower_only_mode" @@
         "followers_on_zero" :> "enable_follower_only_mode" @@
         "followers_off" :> "disable_follower_only_mode" @@
         "already_followers_on" :> "follower_only_mode_already_on" @@
         "already_followers_on_zero" :> "follower_only_mode_already_on" @@
         "already_followers_off" :> "follower_only_mode_already_off") @@
    "deleted_messages" :>
        ("msg_banned" :> "banned_message" @@
         "bad_delete_message_error" :> "bad_delete_message_error" @@
         "bad_delete_message_broadcaster" :> "bad_delete_message_broadcaster" @@
         "bad_delete_message_mod" :> "bad_delete_message_mod" @@
         "delete_message_success" :> "delete_message_success") @@
    "bans" :>
        ("already_banned" :> "already_banned" @@
         "bad_ban_self" :> "bad_ban_self" @@
         "bad_ban_broadcaster" :> "bad_ban_broadcaster" @@
         "bad_ban_admin" :> "bad_ban_admin" @@
         "bad_ban_global_mod" :> "bad_ban_global_mod" @@
         "bad_ban_staff" :> "bad_ban_staff" @@
         "ban_success" :> "ban_success" @@
         "bad_unban_no_ban" :> "bad_unban_no_ban" @@
         "unban_success" :> "unban_success" @@
         "msg_channel_suspended" :> "channel_suspended_message" @@
         "timeout_success" :> "timeout_success" @@
         "bad_timeout_self" :> "bad_timeout_self" @@
         "bad_timeout_broadcaster" :> "bad_timeout_broadcaster" @@
         "bad_timeout_mod" :> "bad_timeout_mod" @@
         "bad_timeout_admin" :> "bad_timeout_admin" @@
         "bad_timeout_global_mod" :> "bad_timeout_global_mod" @@
         "bad_timeout_staff" :> "bad_timeout_staff") @@
    "mods" :>
        ("bad_mod_banned" :> "bad_mod_banned" @@
         "bad_mod_mod" :> "bad_mod_mod" @@
         "mod_success" :> "mod_success" @@
         "bad_unmod_mod" :> "bad_unmod_mod" @@
         "unmod_success" :> "unmod_success" @@
         "no_mods" :> "no_mods" @@
         "room_mods" :> "room_mods") @@
    "colours" :>
        ("turbo_only_color" :> "turbo_only_colour" @@
         "color_changed" :> "colour_changed") @@
    "commercials" :>
        ("bad_commercial_error" :> "bad_commercial_error" @@
         "commercial_success" :> "commercial_success") @@
    "vips" :>
        ("bad_vip_grantee_banned" :> "bad_vip_grantee_banned" @@
         "bad_vip_grantee_already_vip" :> "bad_vip_grantee_already_vip" @@
         "vip_success" :> "vip_success" @@
         "bad_unvip_grantee_not_vip" :> "bad_unvip_grantee_not_vip" @@
         "unvip_success" :> "unvip_success" @@
         "no_vips" :> "no_vips" @@
         "vips_success" :> "vips_success") @@
    "other" :>
        ("cmds_available" :> "cmds_available" @@
         "unrecognized_cmd" :> "unrecognized_cmd" @@
         "no_permission" :> "no_permission" @@
         "msg_ratelimit" :> "rate_limit_reached_message")

MESSAGE_GROUPS_LITERAL ==
    "messages" :> <<"text_message">> @@
    "bans" :> <<"ban_user">> @@
    "deleted_messages" :> <<"delete_message">> @@
    "hosts" :> <<"host_target">> @@
    "room_states" :> <<"room_state">> @@
    "user_states" :> <<"user_state">> @@
    "notices" :> <<"user_notice", "notice", "successful_login">> @@
    "other" :> <<"clear_chat", "reconnect">>

Range(f) == {f[x] : x \in DOMAIN f}
SeqRange(q) == {q[k] : k \in 1..Len(q)}

\* _MESSAGE_GROUPS as the class body writes it, were the loop of lines 636-643
\* not run.
_MESSAGE_GROUPS_unmerged ==
    [g \in DOMAIN MESSAGE_GROUPS_LITERAL |-> SeqRange(MESSAGE_GROUPS_LITERAL[g])]

\* The loop run when the class is loaded (lines 636-643): every msg-id
\* remapping goes into _MESSAGE_TYPE_REMAPPING, and the new names of a group's
\* msg-ids are appended to that group of _MESSAGE_GROUPS.  A group is kept as
\* the set of its message types: the code only tests membership.
_MESSAGE_TYPE_REMAPPING ==
    [k \in UNION {DOMAIN _MESSAGE_GROUP_REMAPPINGS[g] :
                    g \in DOMAIN _MESSAGE_GROUP_REMAPPINGS} |->
        LET g == CHOOSE g \in DOMAIN _MESSAGE_GROUP_REMAPPINGS :
                    k \in DOMAIN _MESSAGE_GROUP_REMAPPINGS[g]
        IN  _MESSAGE_GROUP_REMAPPINGS[g][k]]

_MESSAGE_GROUPS ==
    [g \in (DOMAIN MESSAGE_GROUPS_LITERAL) \cup (DOMAIN _MESSAGE_GROUP_REMAPPINGS) |->
        (IF g \in DOMAIN MESSAGE_GROUPS_LITERAL
         THEN SeqRange(MESSAGE_GROUPS_LITERAL[g]) ELSE {})
        \cup
        (IF g \in DOMAIN _MESSAGE_GROUP_REMAPPINGS
         THEN Range(_MESSAGE_GROUP_REMAPPINGS[g]) ELSE {})]

-----------------------------------------------------------------------------
(* Badges.                                                                 *)

\* TwitchChatDownloader._BADGE_INFO as fetched at construction: the catalog
\* the model resolves against, family -> 'versions' -> version -> descriptor.
_BADGE_INFO ==
    "moderator" :> ("1" :> [title |-> "Moderator", description |-> "Moderator",
                            image_url |-> "badges/v1/3267646d/", id |-> "3267646d",
                            click_action |-> "none", click_url |-> ""])

\* _set_subscriber_badge_info(badge, months): int(months) raises for a version
\* that is no number.
_set_subscriber_badge_info(badge, months) ==
    LET num_months == int_or_none(months, Raise(IF months.t = "str"
                                                 THEN "ValueError" ELSE "TypeError"))
        title == IF Truthy(num_months)
                 THEN StrV(<<num_months.n, "-Month Subscriber">>)
                 ELSE StrV(<<"Subscriber">>)
        b1 == IF Truthy(num_months) THEN DictSet(badge, "months", num_months) ELSE badge
    IN  IF IsRaise(num_months) THEN num_months
        ELSE DictV(DictSet(DictSet(b1, "title", title), "description", title))

\* parse_badge_info(name, version, set_subscriber_badge_info): name is a str,
\* version a str or None.
parse_badge_info(name, version, set_subscriber_badge_info) ==
    LET new_badge == ("name" :> StrV(<<ReplaceWithUnderscores(Join(name.s))>>)) @@
                     ("version" :> int_or_none(version, version))
        family == Join(name.s)
        v == Join(version.s)
        found == /\ family \in DOMAIN _BADGE_INFO
                 /\ version.t = "str"
                 /\ v \in DOMAIN _BADGE_INFO[family]
        e == _BADGE_INFO[family][v]
        icons == ListV([i \in 1..3 |-> StrV(<<e.image_url, <<"1", "2", "4">>[i]>>)])
    IN  IF name = StrV(<<"subscriber">>)
        THEN IF set_subscriber_badge_info
             THEN _set_subscriber_badge_info(new_badge, version)
             ELSE DictV(new_badge)
        ELSE IF found
             THEN DictV(new_badge @@
                        ("title" :> StrV(<<e.title>>)) @@
                        ("description" :> StrV(<<e.description>>)) @@
                        ("click_action" :> StrV(<<e.click_action>>)) @@
                        ("click_url" :> StrV(<<e.click_url>>)) @@
                        ("icons" :> icons) @@
                        ("id" :> StrV(<<e.id>>)))
             ELSE DictV(new_badge)

\* parse_badges(badges): badges is the raw tag value
parse_badges(badges) ==
    IF ~Truthy(badges) THEN ListV(<<>>)
    ELSE IF badges.t # "str" THEN Raise("AttributeError")
    ELSE LET items == Split(badges.s, ",")
             One(k) == LET split == Split1(items[k], "/")
                       IN  parse_badge_info(StrV(split[1]),
                               IF Len(split) = 1 THEN NoneV ELSE StrV(split[2]),
                               FALSE)
         IN  ListV([k \in 1..Len(items) |-> One(k)])

\* next((k for x in badges if x.get('name') == 'subscriber'), None), as the
\* position in the list (0: None)
SubscriberBadge(badges) ==
    LET hits == {k \in 1..Len(badges) :
                    DictGet(badges[k].d, "name") = StrV(<<"subscriber">>)}
    IN  IF hits = {} THEN 0 ELSE Min(hits)

-----------------------------------------------------------------------------
(* The tag remapping engine (ChatDownloader.remap, move_to_dict) and the   *)
(* transforms of _REMAP_FUNCTIONS.                                         *)

\* decode_pseudo_BNF(text): text.replace('\:', ';').replace('\s', ' ')
decode_pseudo_BNF(text) ==
    IF text.t # "str" THEN Raise("AttributeError")
    ELSE StrV([k \in 1..Len(text.s) |->
                 CASE text.s[k] = "\\:" -> ";"
                   [] text.s[k] = "\\s" -> " "
                   [] OTHER -> text.s[k]])

RECURSIVE remap(_, _, _, _, _)

\* for key in item: ChatDownloader.remap(info, remapping_dict,
\* _REMAP_FUNCTIONS, key, item[key], keep_unknown_keys), keys being the order
\* in which the keys of item are gone through
RECURSIVE RemapItem(_, _, _, _, _, _)
RemapItem(inf, item, keys, k, remapping_dict, keep_unknown_keys) ==
    IF k > Len(keys) THEN DictV(inf)
    ELSE IF keys[k] \notin DOMAIN item
         THEN RemapItem(inf, item, keys, k + 1, remapping_dict, keep_unknown_keys)
         ELSE LET Rest(r) == IF IsRaise(r) THEN r
                             ELSE RemapItem(r.d, item, keys, k + 1, remapping_dict,
                                            keep_unknown_keys)
              IN  Rest(remap(inf, remapping_dict, keys[k], item[keys[k]],
                             keep_unknown_keys))

\* The keys of the backend's JSON objects, in the order they are gone through.
CommenterKeys == <<"_id", "name", "display_name", "type", "bio">>
CommentKeys == <<"_id", "commenter", "content_offset_seconds", "source",
                 "state", "message">>
NoticeParamKeys == <<"msg-id", "msg-param-cumulative-months">>

\* parse_commenter(commenter)
parse_commenter(commenter) ==
    IF ~Truthy(commenter) THEN DictV(EmptyDict)
    ELSE IF commenter.t # "dict" THEN Raise("TypeError")
    ELSE RemapItem(EmptyDict, commenter.d, CommenterKeys, 1, _AUTHOR_REMAPPING, FALSE)

\* parse_message_info(message)
parse_message_info(message) ==
    IF message.t # "dict" THEN Raise("AttributeError")
    ELSE LET user_badges == IF Truthy(DictGet(message.d, "user_badges"))
                            THEN DictGet(message.d, "user_badges").l ELSE <<>>
         IN  DictV(("message" :> DictGet(message.d, "body")) @@
                   ("colour" :> DictGet(message.d, "user_color")) @@
                   ("badges" :> ListV([k \in 1..Len(user_badges) |->
                        parse_badge_info(DictGet(user_badges[k].d, "_id"),
                                         DictGet(user_badges[k].d, "version"),
                                         TRUE)])) @@
                   ("user_notice_params" :> DictGet(message.d, "user_notice_params")))

\* _REMAP_FUNCTIONS[name](x), for the transforms the inputs of the model reach
RemapFunction(name, x) ==
    CASE name = "parse_int" -> int_or_none(x, NoneV)
      [] name = "multiply_by_1000" ->
            LET i == int_or_none(x, NoneV)
            IN  IF i.t = "int" THEN IntV(Times1000(i.n)) ELSE Raise("TypeError")
      [] name = "parse_bool" -> BoolV(x = StrV(<<"1">>))
      [] name = "parse_bool_text" -> BoolV(x = StrV(<<"true">>))
      [] name = "parse_badges" -> parse_badges(x)
      [] name = "parse_subscription_type" ->
            IF x.t = "str" /\ Join(x.s) \in DOMAIN _SUBSCRIPTION_TYPES
            THEN StrV(<<_SUBSCRIPTION_TYPES[Join(x.s)]>>) ELSE NoneV
      [] name = "parse_commenter" -> parse_commenter(x)
      [] name = "parse_message_info" -> parse_message_info(x)
      [] name = "decode_pseudo_BNF" -> decode_pseudo_BNF(x)

\* ChatDownloader.remap(info, remapping_dict, remap_function_dict, remap_key,
\* remap_input, keep_unknown_keys, replace_char_with_underscores='-'):
\* gives the new info, or what the transform raised.
remap(inf, remapping_dict, remap_key, remap_input, keep_unknown_keys) ==
    IF remap_key \in DOMAIN remapping_dict
    THEN LET e == remapping_dict[remap_key]
             Put(v) == IF IsRaise(v) THEN v ELSE DictV(DictSet(inf, e[1], v))
         IN  Put(IF e[2] = "" THEN remap_input ELSE RemapFunction(e[2], remap_input))
    ELSE IF keep_unknown_keys
         THEN DictV(DictSet(inf, ReplaceWithUnderscores(remap_key), remap_input))
         ELSE DictV(inf)

\* The keys that start with dict_name + '_', with what is left of each.
PrefixedKeys(dict_name) ==
    CASE dict_name = "author" ->
            "author_name" :> "name" @@
            "author_display_name" :> "display_name" @@
            "author_id" :> "id" @@
            "author_badges" :> "badges" @@
            "author_badge_metadata" :> "badge_metadata"
      [] dict_name = "in_reply_to" ->
            "in_reply_to_message" :> "message" @@
            "in_reply_to_author_id" :> "author_id" @@
            "in_reply_to_message_id" :> "message_id" @@
            "in_reply_to_author_display_name" :> "author_display_name" @@
            "in_reply_to_author_name" :> "author_name"

\* ChatDownloader.move_to_dict(info, dict_name): the new dict and info after it
MovedDict(inf, dict_name) ==
    LET pk == PrefixedKeys(dict_name)
        moved == (DOMAIN inf) \cap (DOMAIN pk)
    IN  [n \in {pk[k] : k \in moved} |->
            inf[CHOOSE k \in moved : pk[k] = n]]

move_to_dict(inf, dict_name) ==
    LET pk == PrefixedKeys(dict_name)
        new_dict == MovedDict(inf, dict_name)
        rest == [k \in (DOMAIN inf) \ (DOMAIN pk) |-> inf[k]]
    IN  IF new_dict = EmptyDict \/ dict_name \in DOMAIN rest
        THEN rest
        ELSE DictSet(rest, dict_name, DictV(new_dict))

\* utils.remove_prefixes(text, '\u0001ACTION ')
remove_prefixes(text) ==
    IF Len(text) >= 2 /\ text[1] = "\\u0001ACTION" /\ text[2] = " "
    THEN Slice(text, 3, Len(text) + 1)
    ELSE text

\* a message type setter that drops a type the remapping does not know
_set_message_type_known(inf, original_message_type) ==
    IF /\ original_message_type.t = "str"
       /\ Join(original_message_type.s) \in DOMAIN _MESSAGE_TYPE_REMAPPING
    THEN DictSet(inf, "message_type",
                 StrV(<<_MESSAGE_TYPE_REMAPPING[Join(original_message_type.s)]>>))
    ELSE DictDel(inf, "message_type")

\* _set_message_type(info, original_message_type)
_set_message_type(inf, original_message_type) ==
    IF /\ original_message_type.t = "str"
       /\ Join(original_message_type.s) \in DOMAIN _MESSAGE_TYPE_REMAPPING
    THEN DictSet(inf, "message_type",
                 StrV(<<_MESSAGE_TYPE_REMAPPING[Join(original_message_type.s)]>>))
    ELSE inf

-----------------------------------------------------------------------------
(* _parse_irc_item(match): the info dict as a dict value, or what was      *)
(* raised.  match is the groups of one match of _MESSAGE_REGEX.  Each part *)
(* of the function takes what the part before it gave, r: info as a dict   *)
(* value, or what was raised, which it hands on.                           *)

\* for item in split_info: ... ChatDownloader.remap(info, _IRC_REMAPPING, ...,
\*     keys[0], keys[1], keep_unknown_keys=True, replace_char_with_underscores='-')
RECURSIVE RemapTags(_, _, _)
RemapTags(inf, split_info, k) ==
    IF k > Len(split_info) THEN DictV(inf)
    ELSE LET keys == Split1(split_info[k], "=")
             \* If there's no equals, we assign the tag a value of true.
             value == IF Len(keys) = 1 THEN BoolV(TRUE) ELSE StrV(keys[2])
             Rest(r) == IF IsRaise(r) THEN r ELSE RemapTags(r.d, split_info, k + 1)
         IN  Rest(remap(inf, _IRC_REMAPPING, Join(keys[1]), value, TRUE))

\* lines 1160-1173: the message body and the subscriber badge merge
ParseBody(r, message_match) ==
    LET inf == r.d
        i1 == IF message_match # <<>>
              THEN DictSet(inf, "message", StrV(remove_prefixes(message_match)))
              ELSE inf
        badge_metadata == DictGetOr(i1, "author_badge_metadata", ListV(<<>>))
        i2 == DictDel(i1, "author_badge_metadata")
        badge_info == DictGetOr(i2, "author_badges", ListV(<<>>))
        sb == SubscriberBadge(badge_info.l)
        sm == SubscriberBadge(badge_metadata.l)
        merged == _set_subscriber_badge_info(
                      badge_info.l[sb].d, DictGet(badge_metadata.l[sm].d, "version"))
    IN  IF IsRaise(r) THEN r
        ELSE IF sb = 0 \/ sm = 0 THEN DictV(i2)
        ELSE IF IsRaise(merged) THEN merged
        ELSE DictV(DictSet(i2, "author_badges",
                 ListV([badge_info.l EXCEPT ![sb] = merged])))

\* lines 1175-1183: author_name and the nested author / in_reply_to dicts
ParseAuthor(r) ==
    LET inf == r.d
        author_display_name == DictGet(inf, "author_display_name")
        i1 == IF Truthy(author_display_name)
              THEN DictSet(inf, "author_name", StrV(Lower(author_display_name.s)))
              ELSE inf
        in_reply_to == MovedDict(i1, "in_reply_to")
        i2 == move_to_dict(i1, "in_reply_to")
        i3 == IF "in_reply_to" \in DOMAIN i2 /\ in_reply_to # EmptyDict
              THEN DictSet(i2, "in_reply_to", DictV(move_to_dict(in_reply_to, "author")))
              ELSE i2
    IN  IF IsRaise(r) THEN r
        ELSE IF Truthy(author_display_name) /\ author_display_name.t # "str"
        THEN Raise("AttributeError")
        ELSE DictV(move_to_dict(i3, "author"))

\* lines 1185-1200: action_type and message_type
ParseTypes(r, original_action_type) ==
    LET inf == r.d
        a == Join(original_action_type)
        i1 == IF original_action_type # <<>>
              THEN DictSet(inf, "action_type",
                      IF a \in DOMAIN _ACTION_TYPE_REMAPPING
                      THEN StrV(<<_ACTION_TYPE_REMAPPING[a]>>)
                      ELSE StrV(original_action_type))   \* unknown action type
              ELSE inf
        original_message_type == DictGet(i1, "message_type")
    IN  IF IsRaise(r) THEN r
        ELSE IF Truthy(original_message_type)
        THEN DictV(_set_message_type(i1, original_message_type))
        ELSE IF "action_type" \in DOMAIN i1
             THEN DictV(DictSet(i1, "message_type", i1["action_type"]))
             ELSE Raise("KeyError")

\* lines 1202-1210: a CLEARCHAT with a body is a ban
ParseBan(r, original_action_type, message_match) ==
    IF IsRaise(r) THEN r
    ELSE IF original_action_type = <<"CLEARCHAT">> /\ message_match # <<>>
    THEN LET i1 == DictSet(r.d, "message_type", StrV(<<"ban_user">>))
             i2 == DictSet(i1, "ban_type",
                      IF Truthy(DictGet(i1, "ban_duration"))
                      THEN StrV(<<"timeout">>) ELSE StrV(<<"permanent">>))
         IN  DictV(DictSet(DictDel(i2, "message"), "banned_user",
                           DictGetOr(i2, "message", StrV(<<>>))))
    ELSE r

\* lines 1212-1216: follower_only
ParseFollowerOnly(r) ==
    LET inf == r.d
        follower_only == DictGet(inf, "follower_only")
        i1 == DictSet(inf, "follower_only", BoolV(follower_only # IntV("-1")))
    IN  IF IsRaise(r) THEN r
        ELSE IF Truthy(follower_only)
        THEN IF follower_only.t # "int" THEN Raise("TypeError")
             ELSE IF follower_only.n \in PositiveNumerals
                  THEN DictV(DictSet(i1, "minutes_to_follow_before_chatting", follower_only))
                  ELSE DictV(i1)
        ELSE r

\* slow_mode tested for truth instead of "is not None"
ParseSlowMode_truthy(r) ==
    LET inf == r.d
        slow_mode == DictGet(inf, "slow_mode")
    IN  IF IsRaise(r) THEN r
        ELSE IF Truthy(slow_mode)
        THEN DictV(DictSet(DictSet(inf, "slow_mode", BoolV(TRUE)),
                           "seconds_to_wait", slow_mode))
        ELSE r

\* lines 1218-1224: slow_mode
ParseSlowMode(r) ==
    LET inf == r.d
        slow_mode == DictGet(inf, "slow_mode")
    IN  IF IsRaise(r) THEN r
        ELSE IF slow_mode # NoneV
        THEN IF slow_mode # IntV("0")
             THEN DictV(DictSet(DictSet(inf, "slow_mode", BoolV(TRUE)),
                                "seconds_to_wait", slow_mode))
             ELSE DictV(DictSet(inf, "slow_mode", BoolV(FALSE)))
        ELSE r

_parse_irc_item(match) ==
    ParseSlowMode(
      ParseFollowerOnly(
        ParseBan(
          ParseTypes(
            ParseAuthor(
              ParseBody(RemapTags(EmptyDict, Split(match.g1, ";"), 1), match.g3)),
            match.g2),
          match.g2, match.g3)))

-----------------------------------------------------------------------------
(* What the variables of a path hold while another path runs.              *)

NoEvent == NoneV
NotParsed == Val("notparsed", <<>>, "", FALSE, EmptyDict, <<>>)
NoMatch == Val("nomatch", <<>>, "", FALSE, EmptyDict, <<>>)
NoParams == [start_time |-> NoneV, end_time |-> NoneV, max_attempts |-> NoneV,
             timeout |-> NoneV, message_groups |-> {}, message_types |-> {},
             url |-> <<>>]
NoComment == EmptyDict
NoHandler == [function_name |-> "", id |-> "", answer |-> NoneV]
NoChat == [generator |-> "", id |-> "", offset |-> 0, max_duration |-> NoneV,
           duration |-> NoneV, is_live |-> FALSE]
NoBadge == [instance |-> 0, name |-> "", version |-> "", badge |-> EmptyDict]
NoArgs == [command |-> "", max_seconds_onscreen |-> 0,
           smoothing_interval_seconds |-> 0, max_subtitles_onscreen |-> 0]
NoInfo == [error |-> FALSE, comments |-> 0, next |-> 0]
NoUrl == [cursor |-> 0, content_offset_seconds |-> 0]

IdleParse == line = <<>> /\ parsed = NotParsed
IdleLive ==
    /\ stream = <<>> /\ pos = 0 /\ readbuffer = <<>> /\ matches = <<>>
    /\ handed = <<>> /\ sent = <<>> /\ time_since_last_message = 0 /\ read_timeouts = 0 /\ pongs = 0
    /\ lpc = "idle" /\ connection = 0 /\ sockets = {}
    /\ connect_attempts = 0 /\ last_ping_time = 0 /\ _CURRENT_CHANNEL = NoneV
IdleReplay ==
    /\ offset = 0 /\ max_duration = NoneV /\ cursor = 0 /\ info = NoInfo
    /\ idx = 0 /\ comment = NoComment /\ data = NoEvent
    /\ attempt_number = 0 /\ page_requests = 0
    /\ url = NoUrl /\ rpc = "idle"
IdleClient ==
    /\ handler = NoHandler /\ chat = NoChat /\ class_BADGE_INFO = EmptyDict
    /\ fetched = <<>> /\ resolved = NoBadge
IdleSubs ==
    /\ chat_messages = <<>> /\ unsmoothed = <<>> /\ subtitle_lines = <<>>
    /\ args = NoArgs /\ spc = ""
IdleOut == calls = <<>> /\ clock = 0 /\ yielded = NoEvent /\ raised = ""

-----------------------------------------------------------------------------
(* The parser applied to one line: the lines it is given.                  *)

\* ';'.join(items)
RECURSIVE JoinItems(_)
JoinItems(items) ==
    IF items = <<>> THEN <<>>
    ELSE IF Len(items) = 1 THEN items[1]
    ELSE items[1] \o <<";">> \o JoinItems(Tail(items))

Tag(key, value) == IF value = "" THEN <<>> ELSE <<<<key, "=", value>>>>

\* A line as the server sends it: @tags :tmi.twitch.tv ACTION #chan[ :body]
TagLine(items, action, body) ==
    <<"@">> \o JoinItems(items) \o <<" ", ":", TMI, " ", action, " ", "#", "chan">>
        \o (IF body = <<>> THEN <<>> ELSE <<" ", ":">> \o body)

\* The line of the specification's end-to-end scenario.
ScenarioLine ==
    <<"@", "badge-info", "=", ";", "badges", "=", "subscriber", "/", "6", ";",
      "color", "=", "#", "FF69B4", ";", "display-name", "=", "sumz5", ";",
      "id", "=", "abc", ";", "mod", "=", "0", ";", "room-id", "=", "1", ";",
      "subscriber", "=", "1", ";", "tmi-sent-ts", "=", "1607447245754", ";",
      "turbo", "=", "0", ";", "user-id", "=", "611966876",
      " ", ":", "sumz5!sumz5@sumz5.", TMI, " ", "PRIVMSG", " ", "#", "chan",
      " ", ":", "hello">>

\* The tag values the parser is tried on ("": the tag is absent).
FollowersOnlyValues == {"", "-1", "0", "5"}
SlowValues == {"", "0", "5", "x"}
BanDurationValues == {"", "600", "0"}
MsgIdValues == {"", "sub", "mystery-id"}
SentTsValues == {"", "1607447245754", "soon"}
Actions == {"PRIVMSG", "CLEARCHAT", "ROOMSTATE", "USERNOTICE", "WHISPER"}
Bodies == {<<>>, <<"hello">>}

ParseLines ==
    {ScenarioLine} \cup
    {TagLine(<<<<"room-id", "=", "1">>>> \o Tag("followers-only", fo)
                 \o Tag("slow", sl) \o Tag("ban-duration", bd)
                 \o Tag("msg-id", mi) \o Tag("tmi-sent-ts", ts), a, body) :
        fo \in FollowersOnlyValues, sl \in SlowValues, bd \in BanDurationValues,
        mi \in MsgIdValues, ts \in SentTsValues, a \in Actions, body \in Bodies}

InitParse ==
    /\ entry = "parse"
    /\ line \in ParseLines
    /\ parsed = NotParsed
    /\ params = NoParams
    /\ IdleLive /\ IdleReplay /\ IdleClient /\ IdleSubs /\ IdleOut

\* data = self._parse_irc_item(match) on the first match of the line
ParseLine ==
    /\ entry = "parse" /\ parsed = NotParsed
    /\ LET First(found) == IF found = <<>> THEN NoMatch
                            ELSE _parse_irc_item(Groups(found[1]))
       IN  parsed' = First(FindIter(line, 1))
    /\ UNCHANGED <<entry, subsVars, clientVars, line, liveVars, replayVars, calls, clock, params,
                   yielded, raised>>

NextParse == ParseLine

SpecParse == InitParse /\ [][NextParse]_vars

\* What the line carries, read off the match.
LineMatch == FindIter(line, 1)[1]
LineTags == Split(LineMatch.g1, ";")
HasTag(key) == \E k \in 1..Len(LineTags) : Split1(LineTags[k], "=")[1] = <<key>>
TagValue(key) ==
    LET k == CHOOSE k \in 1..Len(LineTags) : Split1(LineTags[k], "=")[1] = <<key>>
    IN  Split1(LineTags[k], "=")[2]
Parsed == parsed.t = "dict"

-----------------------------------------------------------------------------
(* What the base class and utils give the two retrievals.                  *)

\* ChatDownloader.get_param_value(params, key)
get_param_value(p, key) == p[key]

\* utils.ensure_seconds(time, default)
ensure_seconds(time, default) == IF time = NoneV THEN default ELSE time

\* utils.seconds_to_time(seconds): m:ss, or h:mm:ss from one hour on
seconds_to_time(seconds) ==
    LET a == IF seconds < 0 THEN -seconds ELSE seconds
        h == a \div 3600
        m == (a % 3600) \div 60
        sec == a % 60
        Two(x) == IF x < 10 THEN "0" \o ToString(x) ELSE ToString(x)
    IN  (IF seconds < 0 THEN <<"-">> ELSE <<>>)
        \o (IF h > 0 THEN <<ToString(h), ":", Two(m)>> ELSE <<ToString(m)>>)
        \o <<":", Two(sec)>>

\* utils.attempts(max_attempts): the ordinals 1..max_attempts, without end
\* when max_attempts is None or 0; whether one more comes after ordinal n
attempts(max_attempts, n) == ~Truthy(max_attempts) \/ n < max_attempts.i

\* ChatDownloader.retry(attempt_number, max_attempts, error, retry_timeout):
\* raises RetriesExceeded once the bound is reached, else sleeps and returns
retry(n, max_attempts) ==
    IF Truthy(max_attempts) /\ n >= max_attempts.i
    THEN Raise("RetriesExceeded") ELSE NoneV

\* ChatDownloader.must_add_item(item, message_groups_dict,
\* messages_groups_to_add, messages_types_to_add)
must_add_item(item, message_groups_dict, groups_to_add, types_to_add) ==
    LET message_type == DictGet(item, "message_type")
        listed(types) == message_type.t = "str" /\ Join(message_type.s) \in types
    IN  \/ groups_to_add = {} /\ types_to_add = {}
        \/ "all" \in groups_to_add \cup types_to_add
        \/ listed(types_to_add)
        \/ \E g \in groups_to_add \cap DOMAIN message_groups_dict :
              listed(message_groups_dict[g])

\* The allow-lists the caller may give: <<message_groups, message_types>>.
AllowLists ==
    {<<{}, {}>>, <<{"messages"}, {}>>, <<{"subscriptions"}, {}>>,
     <<{}, {"subscription"}>>, <<{"all"}, {}>>, <<{}, {"all"}>>}

-----------------------------------------------------------------------------
(* The replay retrieval: _parse_item and _get_chat_messages_by_vod_id.     *)

\* _parse_item(item, offset): the event as a dict value, or what was raised
_parse_item(item, offset_) ==
    LET \* lines 682-689, on what the loop of lines 678-680 gave
        SetType(r5) ==
            LET i5 == r5.d
                original_message_type == DictGet(i5, "message_type")
                i6 == IF Truthy(original_message_type)
                      THEN _set_message_type(i5, original_message_type)
                      ELSE DictSet(i5, "message_type", StrV(<<"text_message">>))
            IN  IF IsRaise(r5) THEN r5
                ELSE DictV(DictDel(i6, "profile_image_url"))
        \* lines 663-680, on what the loop of lines 659-661 gave
        Rest(r1) ==
            LET i1 == r1.d
                t == DictGet(i1, "time_in_seconds").i - offset_
                i2 == IF "time_in_seconds" \in DOMAIN i1
                      THEN DictSet(DictSet(i1, "time_in_seconds", NumV(t)),
                                   "time_text", StrV(seconds_to_time(t)))
                      ELSE i1
                message_info == DictGet(i2, "message_info")
                i3 == DictDel(i2, "message_info")
                \* lines 668-674
                author == DictGet(i3, "author")
                badges == DictGet(message_info.d, "badges")
                a1 == DictSet(author.d, "colour", DictGet(message_info.d, "colour"))
                a2 == IF Truthy(badges) THEN DictSet(a1, "badges", badges) ELSE a1
                i4 == IF Truthy(message_info)
                      THEN DictSet(DictSet(i3, "message",
                                           DictGet(message_info.d, "message")),
                                   "author", DictV(a2))
                      ELSE i3
                \* lines 676-680
                user_notice_params == DictGetOr(message_info.d, "user_notice_params",
                                                DictV(EmptyDict))
            IN  IF IsRaise(r1) THEN r1
                ELSE IF Truthy(message_info) /\ "author" \notin DOMAIN i3
                     THEN Raise("KeyError")
                ELSE IF Truthy(message_info) /\ author.t # "dict" THEN Raise("TypeError")
                ELSE IF message_info.t # "dict" THEN Raise("AttributeError")
                ELSE IF user_notice_params.t # "dict" THEN Raise("TypeError")
                ELSE SetType(RemapItem(i4, user_notice_params.d, NoticeParamKeys, 1,
                                       _MESSAGE_PARAM_REMAPPING, TRUE))
    IN  Rest(RemapItem(EmptyDict, item, CommentKeys, 1, _COMMENT_REMAPPING, FALSE))

\* The locals the generator computes before its loop (lines 836-847, 868).
start_time == ensure_seconds(get_param_value(params, "start_time"), NumV(0))
end_time == ensure_seconds(get_param_value(params, "end_time"), max_duration)
max_attempts == get_param_value(params, "max_attempts")
messages_groups_to_add == get_param_value(params, "message_groups")
messages_types_to_add == get_param_value(params, "message_types")
\* a playback offset that leaves the offset of the clip out
content_offset_seconds_uncorrected == IF Truthy(start_time) THEN start_time.i ELSE 0
content_offset_seconds == (IF Truthy(start_time) THEN start_time.i ELSE 0) + offset

\* a window that skips nothing, and one that never ends
before_start_never(d) == FALSE
after_end_never(d) == FALSE

\* lines 906-909
time_in_seconds(d) == DictGetOr(d, "time_in_seconds", NumV(0)).i
before_start(d) == start_time # NoneV /\ time_in_seconds(d) < start_time.i
after_end(d) == end_time # NoneV /\ time_in_seconds(d) > end_time.i

\* a filter that lets everything through
to_add_always(d) == TRUE

\* lines 916-921: to_add
to_add(d) == must_add_item(d, _MESSAGE_GROUPS, messages_groups_to_add,
                           messages_types_to_add)

\* The bounds of the replay model.
MaxTime == 3          \* the backend's content_offset_seconds are 0..MaxTime
MaxComments == 2      \* a page carries at most MaxComments comments
MaxPages == 2         \* the backend has MaxPages next cursors to give
MaxAttempts == 2      \* max_attempts is None or 1..MaxAttempts

StartTimes == {NoneV, NumV(3)}
EndTimes == {NoneV, NumV(1)}
\* offset and max_duration as get_chat_by_vod_id and get_chat_by_clip_id give them
ReplayArgs == {<<0, NoneV>>, <<1, NumV(2)>>}

\* The records the backend returns.
Commenter == DictV(("_id" :> StrV(<<"611966876">>)) @@
                   ("name" :> StrV(<<"sumz5">>)) @@
                   ("display_name" :> StrV(<<"Sumz5">>)))
Message(user_notice_params) ==
    DictV(("body" :> StrV(<<"hello">>)) @@
          ("user_color" :> StrV(<<"#", "FF69B4">>)) @@
          ("user_notice_params" :> user_notice_params))
NoticeParams ==
    {DictV("msg-id" :> v) : v \in {NoneV, StrV(<<"sub">>), StrV(<<"mystery-id">>)}}
Opt(key, values) == {EmptyDict} \cup {key :> v : v \in values}
\* Whole records, with or without content_offset_seconds, and records that
\* lack the commenter, the message, or have null user_notice_params.
Comments ==
    {("_id" :> StrV(<<"abc">>)) @@ ("commenter" :> Commenter) @@ t @@
     ("message" :> Message(unp)) :
        t \in Opt("content_offset_seconds", {NumV(i) : i \in 0..MaxTime}),
        unp \in NoticeParams}
    \cup
    {("_id" :> StrV(<<"abc">>)) @@ ("content_offset_seconds" :> NumV(1)) @@ c @@ m :
        c \in Opt("commenter", {Commenter}),
        m \in Opt("message", {Message(NoneV), Message(DictV("msg-id" :> NoneV))})}

\* A page response: an error payload, or comments and the next cursor
\* (0: the cursor is empty or absent).
Responses ==
    {[error |-> TRUE, comments |-> 0, next |-> 0]} \cup
    [error : {FALSE}, comments : 0..MaxComments, next : 0..MaxPages]

\* The caller's parameters: a time window and allow-lists with the retry
\* parameters left out, or retry parameters with the others left out.
ReplayParams ==
    {[start_time |-> st, end_time |-> et, max_attempts |-> NoneV,
      timeout |-> NoneV, message_groups |-> al[1], message_types |-> al[2],
      url |-> <<>>] :
        st \in StartTimes, et \in EndTimes, al \in AllowLists}
    \cup
    {[start_time |-> NoneV, end_time |-> NoneV, max_attempts |-> ma,
      timeout |-> to, message_groups |-> {}, message_types |-> {},
      url |-> <<>>] :
        ma \in {NoneV} \cup {NumV(n) : n \in 1..MaxAttempts},
        to \in {NoneV, NumV(1)}}

Tick == 35            \* a blocking step takes no time or Tick seconds
MaxTicks == 2         \* the clock is followed for MaxTicks steps that take time

\* Timeout(lifetime).check_for_timeout() raises: the object was made when
\* the clock read 0
check_for_timeout(lifetime) == lifetime # NoneV /\ clock > lifetime.i

\* What a request may take; the clock is followed when a deadline reads it.
RequestTimes ==
    {t \in {0, Tick} : /\ clock + t <= MaxTicks * Tick
                       /\ t # 0 => get_param_value(params, "timeout") # NoneV}

\* a request that never carries a cursor
RequestUrl_first(cursor_) ==
    [cursor |-> 0, content_offset_seconds |-> content_offset_seconds]

\* lines 873-874 (api_url is the same in every request)
RequestUrl(cursor_) ==
    [cursor |-> cursor_, content_offset_seconds |-> content_offset_seconds]

InitReplay ==
    /\ entry = "replay"
    /\ params \in ReplayParams
    /\ \E a \in ReplayArgs : offset = a[1] /\ max_duration = a[2]
    /\ cursor = 0 /\ info = NoInfo /\ idx = 0 /\ comment = NoComment
    /\ data = NoEvent
    /\ attempt_number = 0 /\ page_requests = 0 /\ url = NoUrl /\ rpc = "fetch"
    /\ IdleParse /\ IdleLive /\ IdleClient /\ IdleSubs /\ IdleOut

\* an attempt that takes an error payload for a page
FetchPage_lenient ==
    /\ entry = "replay" /\ rpc = "fetch"
    /\ attempts(max_attempts, attempt_number)
    /\ ~check_for_timeout(get_param_value(params, "timeout"))
    /\ url' = RequestUrl(cursor)
    /\ \E t \in RequestTimes : clock' = clock + t
    /\ \E response \in Responses :
          /\ info' = response
          /\ raised' = raised /\ rpc' = "page"
    \* break: the ordinal and the count are not looked at again
    /\ attempt_number' = 0 /\ page_requests' = 0
    /\ idx' = 0 /\ yielded' = NoEvent
    /\ UNCHANGED <<entry, subsVars, clientVars, parseVars, liveVars, offset, max_duration, cursor,
                   comment, data, calls, params>>

\* lines 876-888, the attempt that gets a response: info = _session_get_json(url)
FetchPage ==
    /\ entry = "replay" /\ rpc = "fetch"
    /\ attempts(max_attempts, attempt_number)
    /\ ~check_for_timeout(get_param_value(params, "timeout"))
    /\ url' = RequestUrl(cursor)
    /\ \E t \in RequestTimes : clock' = clock + t
    /\ \E response \in Responses :
          /\ info' = response
          /\ IF response.error
             THEN raised' = "TwitchError" /\ rpc' = "raised"
             ELSE raised' = raised /\ rpc' = "page"
    \* break: the ordinal and the count are not looked at again
    /\ attempt_number' = 0 /\ page_requests' = 0
    /\ idx' = 0 /\ yielded' = NoEvent
    /\ UNCHANGED <<entry, subsVars, clientVars, parseVars, liveVars, offset, max_duration, cursor,
                   comment, data, calls, params>>

\* a failed attempt that gives up at once, whatever max_attempts is
FetchFail_once ==
    /\ entry = "replay" /\ rpc = "fetch"
    /\ attempts(max_attempts, attempt_number)
    /\ ~check_for_timeout(get_param_value(params, "timeout"))
    /\ url' = RequestUrl(cursor)
    /\ \E t \in RequestTimes : clock' = clock + t
    /\ attempt_number' = attempt_number + 1
    /\ page_requests' = page_requests + 1
    /\ raised' = "RetriesExceeded" /\ rpc' = "raised"
    /\ yielded' = NoEvent
    /\ UNCHANGED <<entry, subsVars, clientVars, parseVars, liveVars, offset, max_duration, cursor,
                   info, idx, comment, data, calls, params>>

\* lines 876-882, the attempt that fails with UnexpectedHTML or a
\* RequestException: retry either lets the loop go on or raises
FetchFail ==
    /\ entry = "replay" /\ rpc = "fetch"
    /\ attempts(max_attempts, attempt_number)
    /\ max_attempts = NoneV => attempt_number < MaxAttempts
    /\ ~check_for_timeout(get_param_value(params, "timeout"))
    /\ url' = RequestUrl(cursor)
    /\ \E t \in RequestTimes : clock' = clock + t
    /\ attempt_number' = attempt_number + 1
    /\ page_requests' = page_requests + 1
    /\ IF IsRaise(retry(attempt_number', max_attempts))
       THEN raised' = "RetriesExceeded" /\ rpc' = "raised"
       ELSE raised' = raised /\ rpc' = "fetch"
    /\ yielded' = NoEvent
    /\ UNCHANGED <<entry, subsVars, clientVars, parseVars, liveVars, offset, max_duration, cursor,
                   info, idx, comment, data, calls, params>>

\* line 877: timeout.check_for_timeout() finds the deadline passed
FetchTimeout ==
    /\ entry = "replay" /\ rpc = "fetch"
    /\ attempts(max_attempts, attempt_number)
    /\ check_for_timeout(get_param_value(params, "timeout"))
    /\ attempt_number' = attempt_number + 1
    /\ raised' = "TimeoutException" /\ rpc' = "raised"
    /\ yielded' = NoEvent
    /\ UNCHANGED <<entry, subsVars, clientVars, parseVars, liveVars, offset, max_duration, cursor,
                   info, idx, comment, data, page_requests, url, calls, clock, params>>

\* a turn that yields what the turn before it parsed
NextComment_stale ==
    /\ entry = "replay" /\ rpc = "page" /\ idx < info.comments
    /\ idx' = idx + 1
    /\ \E c \in Comments : \E d \in {_parse_item(c, offset)} :
          /\ comment' = c
          /\ data' = d
          /\ IF IsRaise(d)
             THEN raised' = d.s[1] /\ rpc' = "raised" /\ yielded' = NoEvent
             ELSE /\ raised' = raised
                  /\ IF before_start(d.d)          \* still getting to messages
                     THEN rpc' = rpc /\ yielded' = NoEvent
                     ELSE IF after_end(d.d)
                     THEN rpc' = "returned" /\ yielded' = NoEvent
                     ELSE /\ rpc' = rpc
                          /\ yielded' = IF to_add(d.d) THEN data ELSE NoEvent
    /\ UNCHANGED <<entry, subsVars, clientVars, parseVars, liveVars, offset, max_duration, cursor,
                   info, attempt_number, page_requests, url, calls, clock,
                   params>>

\* lines 891-926: one turn of the for loop over the comments of the page
NextComment ==
    /\ entry = "replay" /\ rpc = "page" /\ idx < info.comments
    /\ idx' = idx + 1
    /\ \E c \in Comments : \E d \in {_parse_item(c, offset)} :
          /\ comment' = c
          /\ data' = d
          /\ IF IsRaise(d)
             THEN raised' = d.s[1] /\ rpc' = "raised" /\ yielded' = NoEvent
             ELSE /\ raised' = raised
                  /\ IF before_start(d.d)          \* still getting to messages
                     THEN rpc' = rpc /\ yielded' = NoEvent
                     ELSE IF after_end(d.d)
                     THEN rpc' = "returned" /\ yielded' = NoEvent
                     ELSE /\ rpc' = rpc
                          /\ yielded' = IF to_add(d.d) THEN d ELSE NoEvent
    /\ UNCHANGED <<entry, subsVars, clientVars, parseVars, liveVars, offset, max_duration, cursor,
                   info, attempt_number, page_requests, url, calls, clock,
                   params>>

\* a page left for the next request before its comments are gone through
EndPage_early ==
    /\ entry = "replay" /\ rpc = "page" /\ idx <= info.comments
    /\ cursor' = info.next
    /\ rpc' = IF info.next # 0 THEN "fetch" ELSE "returned"
    /\ yielded' = NoEvent
    /\ UNCHANGED <<entry, subsVars, clientVars, parseVars, liveVars, offset, max_duration, info, idx,
                   comment, data, attempt_number, page_requests, url, calls, clock,
                   params, raised>>

\* lines 928-931: the page is done
EndPage ==
    /\ entry = "replay" /\ rpc = "page" /\ idx = info.comments
    /\ cursor' = info.next
    /\ rpc' = IF info.next # 0 THEN "fetch" ELSE "returned"
    /\ yielded' = NoEvent
    /\ UNCHANGED <<entry, subsVars, clientVars, parseVars, liveVars, offset, max_duration, info, idx,
                   comment, data, attempt_number, page_requests, url, calls, clock,
                   params, raised>>

NextReplay == FetchPage \/ FetchFail \/ FetchTimeout \/ NextComment \/ EndPage

SpecReplay == InitReplay /\ [][NextReplay]_vars

-----------------------------------------------------------------------------
(* The live retrieval: _get_chat_messages_by_stream_id.  A chunk boundary   *)
(* falls between two tokens.                                               *)

_PING_TEXT == <<"PING", " ", ":", TMI>>
_PONG_TEXT == <<"PONG", " ", ":", TMI>>

\* needle in text
In(needle, text) ==
    \E j \in 0..(Len(text) - Len(needle)) :
        \A k \in 1..Len(needle) : text[j + k] = needle[k]

\* The lines the server sends.
TextLine == TagLine(<<<<"k">>>>, "PRIVMSG", <<"hello">>) \o <<CR, LF>>
\* a chat message whose text is the server's host name
HostNameLine == TagLine(<<<<"k">>>>, "PRIVMSG", <<TMI>>) \o <<CR, LF>>
BanLine == TagLine(<<<<"k">>>>, "CLEARCHAT", <<"sumz5">>) \o <<CR, LF>>
SubLine == TagLine(<<<<"msg-id", "=", "sub">>>>, "USERNOTICE", <<>>) \o <<CR, LF>>
PingLine == _PING_TEXT \o <<CR, LF>>

MaxLines == 2         \* a stream is at most MaxLines lines

RECURSIVE Streams(_, _)
Streams(lines, n) ==
    IF n = 0 THEN {<<>>}
    ELSE {<<>>} \cup {l \o st : l \in lines, st \in Streams(lines, n - 1)}

LiveStreams == Streams({TextLine, HostNameLine, PingLine}, MaxLines) \ {<<>>}

\* What the server sends and the caller's parameters: any stream with no
\* parameter given, or one line with allow-lists or with a timeout and a
\* bound on the attempts.
LiveInputs ==
    {<<st, NoParams>> : st \in LiveStreams}
    \cup
    {<<l, [NoParams EXCEPT !.message_groups = al[1], !.message_types = al[2]]>> :
        l \in {TextLine, BanLine, SubLine}, al \in AllowLists}
    \cup
    {<<TextLine, [NoParams EXCEPT !.timeout = to, !.max_attempts = ma]>> :
        to \in {NoneV, NumV(1)},
        ma \in {NoneV} \cup {NumV(n) : n \in 1..MaxAttempts}}

MaxConnections == 2   \* the read loop makes at most MaxConnections connections

\* the stream_id argument: the channel to read
stream_id == "Sumz5"

\* lines 1235-1236: how long a read waits before it times out
message_receive_timeout == Tick
\* line 1272
ping_every == 60

\* a constructor that writes nothing
TwitchChatIRC_init_silent == <<>>

\* TwitchChatIRC.__init__ (lines 42-58): what it writes to the new socket
TwitchChatIRC_init ==
    <<<<"CAP REQ", " ", ":", "twitch.tv/tags", " ", "twitch.tv/commands", " ",
        "twitch.tv/membership">>,
      <<"PASS", " ", "SCHMOOPIIE">>, <<"NICK", " ", "justinfan67420">>>>

\* a join_channel that writes JOIN whatever the attribute holds
join_channel_always(current, channel_name) ==
    [sent |-> <<<<"JOIN", " ", "#", LowerWord(channel_name)>>>>,
     current |-> StrV(<<LowerWord(channel_name)>>)]

\* TwitchChatIRC.join_channel(channel_name) (lines 81-86) on an object whose
\* _CURRENT_CHANNEL is current: what it writes and what the attribute becomes
join_channel(current, channel_name) ==
    LET channel_lower == LowerWord(channel_name)
    IN  IF current # StrV(<<channel_lower>>)
        THEN [sent |-> <<<<"JOIN", " ", "#", channel_lower>>>>,
              current |-> StrV(<<channel_lower>>)]
        ELSE [sent |-> <<>>, current |-> current]

\* lines 1289-1292: the reply written after new_info was added to rb
Pong(rb, new_info) ==
    IF In(_PING_TEXT, rb \o new_info) THEN <<_PONG_TEXT>> ELSE <<>>

\* What a read may take.
ReadTimes == {t \in {0, Tick} : clock + t <= MaxTicks * Tick}

\* The generator starts in create_connection (line 1265).
InitLive ==
    /\ entry = "live"
    /\ \E li \in LiveInputs : stream = li[1] /\ params = li[2]
    /\ pos = 0 /\ readbuffer = <<>> /\ matches = <<>> /\ handed = <<>>
    /\ sent = <<>> /\ time_since_last_message = 0 /\ read_timeouts = 0 /\ pongs = 0 /\ lpc = "connect"
    /\ connection = 0 /\ sockets = {} /\ connect_attempts = 0
    /\ last_ping_time = 0 /\ _CURRENT_CHANNEL = NoneV
    /\ IdleParse /\ IdleReplay /\ IdleClient /\ IdleSubs /\ IdleOut

\* an attempt that joins the channel before it has introduced itself
Connect_join_first ==
    /\ entry = "live" /\ lpc = "connect"
    /\ attempts(max_attempts, connect_attempts)
    /\ \E j \in {join_channel(NoneV, stream_id)} :
          /\ sent' = j.sent \o TwitchChatIRC_init
          /\ _CURRENT_CHANNEL' = j.current
    /\ connection' = connection + 1
    /\ sockets' = sockets \cup {connection + 1}
    /\ connect_attempts' = 0
    /\ last_ping_time' = IF connection = 0 THEN clock ELSE last_ping_time
    /\ lpc' = "recv"
    /\ yielded' = NoEvent
    /\ UNCHANGED <<entry, subsVars, clientVars, parseVars, replayVars, stream, pos, readbuffer,
                   matches, handed, time_since_last_message, read_timeouts, pongs, calls, clock,
                   params, raised>>

\* lines 1255-1261: an attempt of create_connection that makes the connection.
\* The new object starts from the class attribute _CURRENT_CHANNEL = None
\* (line 40); lines 1267-1279 follow the first connection.
Connect ==
    /\ entry = "live" /\ lpc = "connect"
    /\ attempts(max_attempts, connect_attempts)
    /\ \E j \in {join_channel(NoneV, stream_id)} :
          /\ sent' = TwitchChatIRC_init \o j.sent
          /\ _CURRENT_CHANNEL' = j.current
    /\ connection' = connection + 1
    /\ sockets' = sockets \cup {connection + 1}
    /\ connect_attempts' = 0
    /\ last_ping_time' = IF connection = 0 THEN clock ELSE last_ping_time
    /\ lpc' = "recv"
    /\ yielded' = NoEvent
    /\ UNCHANGED <<entry, subsVars, clientVars, parseVars, replayVars, stream, pos, readbuffer,
                   matches, handed, time_since_last_message, read_timeouts, pongs, calls, clock,
                   params, raised>>

\* lines 1255-1263: an attempt that ends in socket.gaierror: retry either
\* lets the loop go on or raises
ConnectFail ==
    /\ entry = "live" /\ lpc = "connect"
    /\ attempts(max_attempts, connect_attempts)
    /\ max_attempts = NoneV => connect_attempts < MaxAttempts
    /\ connect_attempts' = connect_attempts + 1
    /\ IF IsRaise(retry(connect_attempts', max_attempts))
       THEN raised' = "RetriesExceeded" /\ lpc' = "raised"
       ELSE raised' = raised /\ lpc' = "connect"
    /\ sent' = <<>> /\ yielded' = NoEvent
    /\ UNCHANGED <<entry, subsVars, clientVars, parseVars, replayVars, stream, pos, readbuffer,
                   matches, handed, time_since_last_message, read_timeouts, pongs, connection,
                   sockets, last_ping_time, _CURRENT_CHANNEL, calls, clock,
                   params>>

\* lines 1255-1263: an attempt that ends in another error of the socket
\* (the connection is refused, the network is unreachable, a write fails):
\* the except clause of line 1262 does not name it
ConnectError ==
    /\ entry = "live" /\ lpc = "connect"
    /\ attempts(max_attempts, connect_attempts)
    /\ connect_attempts' = connect_attempts + 1
    /\ raised' = "OSError" /\ lpc' = "raised"
    /\ sent' = <<>> /\ yielded' = NoEvent
    /\ UNCHANGED <<entry, subsVars, clientVars, parseVars, replayVars, stream, pos, readbuffer,
                   matches, handed, time_since_last_message, read_timeouts, pongs, connection,
                   sockets, last_ping_time, _CURRENT_CHANNEL, calls, clock,
                   params>>

\* lines 1294-1323 and 1355-1363: the matches to go through and the
\* readbuffer kept, for the readbuffer rb after the read
Matching(rb) ==
    LET full_readbuffer == EndsWithCRLF(rb)
        Keep(all) ==
            LET last == all[Len(all)]
                pass_on == Slice(rb, last.start, Len(rb) + 1)
            IN  IF all # <<>>
                THEN IF ~full_readbuffer
                     THEN IF Contains2(pass_on, CR, LF)   \* last message not matched
                          THEN [matched |-> TRUE, matches |-> all,
                                readbuffer |-> Slice(rb, last.end, Len(rb) + 1)]
                          ELSE [matched |-> TRUE,
                                matches |-> SubSeq(all, 1, Len(all) - 1),
                                readbuffer |-> pass_on]
                     ELSE [matched |-> TRUE, matches |-> all, readbuffer |-> <<>>]
                ELSE [matched |-> FALSE, matches |-> <<>>,
                      readbuffer |-> IF full_readbuffer THEN <<>> ELSE rb]
    IN  Keep(FindIter(rb, 1))

\* lines 1281-1325: a read that returns n tokens
Recv ==
    /\ entry = "live" /\ lpc = "recv"
    /\ ~check_for_timeout(get_param_value(params, "timeout"))
    /\ \E t \in ReadTimes : clock' = clock + t
    /\ \E n \in 1..(Len(stream) - pos) :
          \E new_info \in {Slice(stream, pos + 1, pos + n + 1)} :
          \E m \in {Matching(readbuffer \o new_info)} :
              /\ pos' = pos + n
              /\ sent' = Pong(readbuffer, new_info)
              /\ readbuffer' = m.readbuffer
              /\ matches' = [k \in 1..Len(m.matches) |-> Groups(m.matches[k])]
              /\ time_since_last_message' =
                    IF m.matched THEN 0 ELSE time_since_last_message
              /\ read_timeouts' = 0
              /\ pongs' = pongs + Len(Pong(readbuffer, new_info))
              /\ lpc' = IF m.matches # <<>> THEN "for" ELSE "ping"
    /\ yielded' = NoEvent
    /\ UNCHANGED <<entry, subsVars, clientVars, parseVars, replayVars, stream, handed, connection,
                   sockets, connect_attempts, last_ping_time, _CURRENT_CHANNEL,
                   calls, params, raised>>

\* lines 1343-1348
to_add_irc(d) == must_add_item(d, _MESSAGE_GROUPS, messages_groups_to_add,
                               messages_types_to_add)

\* lines 1327-1353: one turn of the for loop over the matches
ForMatch ==
    /\ entry = "live" /\ lpc = "for"
    /\ \E match \in {Head(matches)}, d \in {_parse_irc_item(Head(matches))} :
           /\ handed' = Append(handed, match)
           /\ matches' = Tail(matches)
           /\ IF IsRaise(d)
              THEN raised' = d.s[1] /\ lpc' = "raised" /\ yielded' = NoEvent
              ELSE /\ raised' = raised
                   /\ lpc' = IF Tail(matches) = <<>> THEN "ping" ELSE "for"
                   /\ yielded' = IF to_add_irc(d.d) THEN d ELSE NoEvent
    /\ UNCHANGED <<entry, subsVars, clientVars, parseVars, replayVars, stream, pos, readbuffer, sent,
                   time_since_last_message, read_timeouts, pongs, connection, sockets,
                   connect_attempts, last_ping_time, _CURRENT_CHANNEL, calls,
                   clock, params>>

\* lines 1365-1371: the client's own ping, when more than ping_every seconds
\* have passed since the last one
Ping ==
    /\ entry = "live" /\ lpc = "ping"
    /\ IF clock - last_ping_time > ping_every
       THEN sent' = <<<<"PING">>>> /\ last_ping_time' = clock
       ELSE sent' = <<>> /\ last_ping_time' = last_ping_time
    /\ lpc' = "recv"
    /\ yielded' = NoEvent
    /\ UNCHANGED <<entry, subsVars, clientVars, parseVars, replayVars, stream, pos, readbuffer,
                   matches, handed, time_since_last_message, read_timeouts, pongs, connection,
                   sockets, connect_attempts, _CURRENT_CHANNEL, calls, clock,
                   params, raised>>

\* lines 1284-1287 and 1386-1387: the read returns nothing or raises a
\* ConnectionError: the handler calls create_connection
RecvNothing ==
    /\ entry = "live" /\ lpc = "recv"
    /\ ~check_for_timeout(get_param_value(params, "timeout"))
    /\ connection < MaxConnections
    /\ \E t \in ReadTimes : clock' = clock + t
    /\ lpc' = "connect" /\ connect_attempts' = 0
    /\ sent' = <<>> /\ yielded' = NoEvent
    /\ UNCHANGED <<entry, subsVars, clientVars, parseVars, replayVars, stream, pos, readbuffer,
                   matches, handed, time_since_last_message, read_timeouts, pongs, connection,
                   sockets, last_ping_time, _CURRENT_CHANNEL, calls, params,
                   raised>>

\* a read timeout that adds nothing to the idle time
RecvTimeout_uncounted ==
    /\ entry = "live" /\ lpc = "recv"
    /\ ~check_for_timeout(get_param_value(params, "timeout"))
    /\ clock + message_receive_timeout <= MaxTicks * Tick
    /\ clock' = clock + message_receive_timeout
    /\ time_since_last_message' = time_since_last_message
    /\ read_timeouts' = read_timeouts + 1
    /\ pongs' = pongs
    /\ raised' = "TypeError" /\ lpc' = "raised"
    /\ sent' = <<>> /\ yielded' = NoEvent
    /\ UNCHANGED <<entry, subsVars, clientVars, parseVars, replayVars, stream, pos, readbuffer,
                   matches, handed, connection, sockets, connect_attempts,
                   last_ping_time, _CURRENT_CHANNEL, calls, params>>

\* lines 1375-1384: the read times out.  timeout was rebound to the Timeout
\* object at line 1279: it is not None, and a number is compared with it.
RecvTimeout ==
    /\ entry = "live" /\ lpc = "recv"
    /\ ~check_for_timeout(get_param_value(params, "timeout"))
    /\ clock + message_receive_timeout <= MaxTicks * Tick
    /\ clock' = clock + message_receive_timeout
    /\ time_since_last_message' = time_since_last_message + message_receive_timeout
    /\ read_timeouts' = read_timeouts + 1
    /\ pongs' = pongs
    /\ raised' = "TypeError" /\ lpc' = "raised"
    /\ sent' = <<>> /\ yielded' = NoEvent
    /\ UNCHANGED <<entry, subsVars, clientVars, parseVars, replayVars, stream, pos, readbuffer,
                   matches, handed, connection, sockets, connect_attempts,
                   last_ping_time, _CURRENT_CHANNEL, calls, params>>

\* line 1281: timeout.check_for_timeout() finds the deadline passed
LiveTimeout ==
    /\ entry = "live" /\ lpc = "recv"
    /\ check_for_timeout(get_param_value(params, "timeout"))
    /\ raised' = "TimeoutException" /\ lpc' = "raised"
    /\ sent' = <<>> /\ yielded' = NoEvent
    /\ UNCHANGED <<entry, subsVars, clientVars, parseVars, replayVars, stream, pos, readbuffer,
                   matches, handed, time_since_last_message, read_timeouts, pongs, connection,
                   sockets, connect_attempts, last_ping_time, _CURRENT_CHANNEL,
                   calls, clock, params>>

NextLive ==
    \/ Connect \/ ConnectFail \/ ConnectError
    \/ Recv \/ ForMatch \/ Ping \/ RecvNothing \/ RecvTimeout \/ LiveTimeout

SpecLive == InitLive /\ [][NextLive]_vars

-----------------------------------------------------------------------------
(* One TwitchChatIRC object and its join_channel.                          *)

MaxCalls == 4         \* join_channel is called at most MaxCalls times

\* The names join_channel is called with.
ChannelNames == {"Sumz5", "sumz5", "chan"}

\* The object after __init__: the handshake is written, no channel joined.
InitIRC ==
    /\ entry = "irc"
    /\ lpc = "idle" /\ connection = 1 /\ sockets = {1}
    /\ sent = TwitchChatIRC_init /\ _CURRENT_CHANNEL = NoneV
    /\ stream = <<>> /\ pos = 0 /\ readbuffer = <<>> /\ matches = <<>>
    /\ handed = <<>> /\ time_since_last_message = 0 /\ read_timeouts = 0 /\ pongs = 0
    /\ connect_attempts = 0 /\ last_ping_time = 0
    /\ params = NoParams
    /\ IdleParse /\ IdleReplay /\ IdleClient /\ IdleSubs /\ IdleOut

\* lines 81-86: a call of join_channel
JoinChannel ==
    /\ entry = "irc" /\ Len(calls) < MaxCalls
    /\ \E channel_name \in ChannelNames :
       \E j \in {join_channel(_CURRENT_CHANNEL, channel_name)} :
          /\ calls' = Append(calls, channel_name)
          /\ sent' = j.sent
          /\ _CURRENT_CHANNEL' = j.current
    /\ UNCHANGED <<entry, subsVars, clientVars, parseVars, replayVars, stream, pos, readbuffer,
                   matches, handed, time_since_last_message, read_timeouts, pongs, lpc, connection,
                   sockets, connect_attempts, last_ping_time, clock, params,
                   yielded, raised>>

NextIRC == JoinChannel

SpecIRC == InitIRC /\ [][NextIRC]_vars

-----------------------------------------------------------------------------
(* Both retrievals and the parser together.                                *)

Init == InitParse \/ InitLive \/ InitReplay
Next == NextParse \/ NextLive \/ NextReplay
Spec == Init /\ [][Next]_vars

-----------------------------------------------------------------------------
(* The properties.                                                         *)

\* The message types of a group, read off the two tables of the class body.
GroupMembers(g) ==
    (IF g \in DOMAIN MESSAGE_GROUPS_LITERAL
     THEN SeqRange(MESSAGE_GROUPS_LITERAL[g]) ELSE {})
    \cup
    (IF g \in DOMAIN _MESSAGE_GROUP_REMAPPINGS
     THEN Range(_MESSAGE_GROUP_REMAPPINGS[g]) ELSE {})

\* The event's message_type is listed, or belongs to a listed group, or a
\* list holds "all".
Allowed(d) ==
    LET type == Join(DictGet(d, "message_type").s)
    IN  \/ "all" \in messages_groups_to_add \cup messages_types_to_add
        \/ type \in messages_types_to_add
        \/ \E g \in messages_groups_to_add : type \in GroupMembers(g)

NoLists == messages_groups_to_add = {} /\ messages_types_to_add = {}

\* The event the step about to be taken hands to the filter, if any: on the
\* live path the parse of the next match, on the replay path the parse of the
\* comment taken when it lies inside the window.
LiveEvent == _parse_irc_item(Head(matches))
LiveFilters == entry = "live" /\ lpc = "for" /\ ~IsRaise(LiveEvent)
ReplayFilters ==
    /\ entry = "replay" /\ idx' = idx + 1 /\ ~IsRaise(data')
    /\ ~(time_in_seconds(data'.d) < start_time.i)
    /\ ~(end_time # NoneV /\ time_in_seconds(data'.d) > end_time.i)

\* C1: whatever the chunk boundaries, once the whole stream has been read the
\* matches handed to the parser are the matches of the whole stream, in order.
C1_BufferSplitting ==
    (entry = "live" /\ lpc = "recv" /\ pos = Len(stream)) =>
        handed = [k \in 1..Len(FindIter(stream, 1)) |-> Groups(FindIter(stream, 1)[k])]

\* C2: every event the replay retrieval yields has S <= time_in_seconds <= E
\* (time_in_seconds after the offset was subtracted), and a record below S is
\* skipped without ending the retrieval.
C2_TimeWindow ==
    /\ [](entry = "replay" /\ yielded # NoEvent =>
            /\ start_time.i <= time_in_seconds(yielded.d)
            /\ end_time # NoneV => time_in_seconds(yielded.d) <= end_time.i)
    /\ [][(entry = "replay" /\ idx' = idx + 1 /\ ~IsRaise(data')
            /\ time_in_seconds(data'.d) < start_time.i)
          => (rpc' = "page" /\ yielded' = NoEvent)]_vars

C2_Witness ==
    /\ entry = "replay" /\ yielded # NoEvent /\ offset > 0
    /\ end_time # NoneV /\ time_in_seconds(yielded.d) = end_time.i

\* C3, as the specification states it: the first record whose time exceeds E
\* ends the retrieval, and nothing happens after the retrieval has ended.
C3_EarlyExit ==
    [][/\ rpc # "returned"
       /\ (entry = "replay" /\ idx' = idx + 1 /\ ~IsRaise(data')
            /\ end_time # NoneV /\ time_in_seconds(data'.d) > end_time.i)
          => rpc' = "returned"]_vars

\* C3, amended: the first record whose time exceeds E and is not below the
\* start time S ends the retrieval (a record below S is skipped first), and
\* after the end no event is yielded and no page is requested.
C3_EarlyExitFromStart ==
    [][/\ rpc # "returned"
       /\ (entry = "replay" /\ idx' = idx + 1 /\ ~IsRaise(data')
            /\ end_time # NoneV /\ time_in_seconds(data'.d) > end_time.i
            /\ time_in_seconds(data'.d) >= start_time.i)
          => rpc' = "returned"]_vars

C3_Witness ==
    /\ entry = "replay" /\ rpc = "returned" /\ data # NoEvent /\ ~IsRaise(data)
    /\ after_end(data.d) /\ info.next # 0 /\ idx < info.comments

\* C4: with both allow-lists empty every event is yielded; with a non-empty
\* list an event whose type is neither listed, nor in a listed group, and
\* with no "all" in a list, is never yielded; on both paths.
C4_FilterDrops ==
    /\ [](yielded # NoEvent /\ ~NoLists => Allowed(yielded.d))
    /\ [][/\ (LiveFilters /\ NoLists) => yielded' = LiveEvent
          /\ (ReplayFilters /\ NoLists) => yielded' = data']_vars

C4_Witness ==
    /\ entry = "live" /\ lpc = "ping" /\ handed # <<>> /\ yielded = NoEvent
    /\ messages_groups_to_add = {"subscriptions"}

\* C5: with a non-empty allow-list an event is yielded when its type is
\* listed, or is a member of a listed group of the merged taxonomy, or a list
\* holds "all".
C5_FilterPasses ==
    [][/\ (LiveFilters /\ ~NoLists /\ Allowed(LiveEvent.d)) => yielded' = LiveEvent
       /\ (ReplayFilters /\ ~NoLists /\ Allowed(data'.d)) => yielded' = data']_vars

C5_Witness ==
    /\ entry = "live" /\ yielded # NoEvent
    /\ messages_groups_to_add = {"subscriptions"}
    /\ DictGet(yielded.d, "message_type") = StrV(<<"subscription">>)

\* C6: followers-only=-1 gives follower_only false and no wait field, 0 gives
\* follower_only true and no wait field, n > 0 gives follower_only true and
\* minutes_to_follow_before_chatting = n.
C6_FollowerOnly ==
    (Parsed /\ HasTag("followers-only")) =>
        LET v == Join(TagValue("followers-only"))
            wait == "minutes_to_follow_before_chatting"
        IN  /\ v = "-1" => /\ DictGet(parsed.d, "follower_only") = BoolV(FALSE)
                           /\ wait \notin DOMAIN parsed.d
            /\ v = "0" => /\ DictGet(parsed.d, "follower_only") = BoolV(TRUE)
                          /\ wait \notin DOMAIN parsed.d
            /\ v \in PositiveNumerals =>
                          /\ DictGet(parsed.d, "follower_only") = BoolV(TRUE)
                          /\ DictGet(parsed.d, wait) = IntV(v)

\* C7: slow=0 gives slow_mode false and no seconds_to_wait, a non-zero n gives
\* slow_mode true and seconds_to_wait = n, and without the tag neither field
\* is there.
C7_SlowMode ==
    Parsed =>
        LET v == Join(TagValue("slow"))
        IN  /\ ~HasTag("slow") =>
                  {"slow_mode", "seconds_to_wait"} \cap DOMAIN parsed.d = {}
            /\ (HasTag("slow") /\ v = "0") =>
                  /\ DictGet(parsed.d, "slow_mode") = BoolV(FALSE)
                  /\ "seconds_to_wait" \notin DOMAIN parsed.d
            /\ (HasTag("slow") /\ v \in Numerals \ {"0"}) =>
                  /\ DictGet(parsed.d, "slow_mode") = BoolV(TRUE)
                  /\ DictGet(parsed.d, "seconds_to_wait") = IntV(v)

C7_Witness ==
    /\ Parsed /\ HasTag("slow") /\ TagValue("slow") = <<"5">>
    /\ DictGet(parsed.d, "seconds_to_wait") = IntV("5")

\* C8: a CLEARCHAT line with a body gives message_type ban_user, banned_user
\* the body, no message, and ban_type timeout exactly when the ban-duration
\* tag is there (permanent when it is not); without a body it stays
\* clear_chat with no ban field.
C8_BanDerivation ==
    (Parsed /\ LineMatch.g2 = <<"CLEARCHAT">> /\ ~HasTag("msg-id")) =>
        IF LineMatch.g3 # <<>>
        THEN /\ DictGet(parsed.d, "message_type") = StrV(<<"ban_user">>)
             /\ DictGet(parsed.d, "banned_user") = StrV(LineMatch.g3)
             /\ "message" \notin DOMAIN parsed.d
             /\ DictGet(parsed.d, "ban_type") =
                   IF HasTag("ban-duration") THEN StrV(<<"timeout">>)
                   ELSE StrV(<<"permanent">>)
        ELSE /\ DictGet(parsed.d, "message_type") = StrV(<<"clear_chat">>)
             /\ {"ban_type", "banned_user"} \cap DOMAIN parsed.d = {}

\* C9: with max_attempts = N a page fetch that keeps failing is tried exactly
\* N times and then RetriesExceeded is raised; with max_attempts unset a
\* failed attempt is always followed by another and RetriesExceeded is never
\* raised.
C9_RetryExhaustion ==
    /\ [](entry = "replay" =>
            /\ raised = "RetriesExceeded" =>
                  max_attempts # NoneV /\ page_requests = max_attempts.i
            /\ max_attempts # NoneV => page_requests <= max_attempts.i)
    /\ [][(entry = "replay" /\ page_requests' = page_requests + 1) =>
            IF max_attempts # NoneV /\ page_requests' = max_attempts.i
            THEN raised' = "RetriesExceeded"
            ELSE rpc' = "fetch" /\ raised' = ""]_vars

C9_Witness ==
    /\ entry = "replay" /\ raised = "RetriesExceeded" /\ cursor > 0
    /\ page_requests = MaxAttempts

\* C10: the scenario's PRIVMSG line gives message_type text_message,
\* author.display_name sumz5, author.colour #FF69B4, message hello and
\* timestamp 1607447245754000.
C10_EndToEnd ==
    (line = ScenarioLine /\ parsed # NotParsed) =>
        /\ Parsed
        /\ DictGet(parsed.d, "message_type") = StrV(<<"text_message">>)
        /\ DictGet(DictGet(parsed.d, "author").d, "display_name") = StrV(<<"sumz5">>)
        /\ DictGet(DictGet(parsed.d, "author").d, "colour") = StrV(<<"#", "FF69B4">>)
        /\ DictGet(parsed.d, "message") = StrV(<<"hello">>)
        /\ DictGet(parsed.d, "timestamp") = IntV("1607447245754000")

\* C11: a read that times out is never an error; once the idle time the
\* timed-out reads add up to reaches the caller's timeout, the read loop ends
\* without an exception.
C11_IdleTimeout ==
    [][(entry = "live" /\ time_since_last_message' > time_since_last_message)
          => raised' = ""]_vars

\* C12: whenever the live retrieval has ended, the socket of its connection
\* has been closed.
C12_Close ==
    (entry = "live" /\ lpc = "raised") => connection \notin sockets

\* C13: when the read loop goes on with a new connection the readbuffer is
\* empty: nothing read from the old connection is put before what the new
\* one sends.
C13_ReconnectClean ==
    [][(entry = "live" /\ connection >= 1 /\ connection' = connection + 1)
          => readbuffer' = <<>>]_vars

\* C14: a connection error of the read (an empty read too) is not raised to
\* the caller; nothing is read until a new connection is made, and on the new
\* connection the three handshake lines and the JOIN of the same channel
\* have been written before the next read.
C14_ReconnectRejoin ==
    [][entry = "live" =>
          /\ (lpc = "recv" /\ lpc' = "connect") => raised' = ""
          /\ lpc = "connect" => pos' = pos
          /\ (lpc = "connect" /\ connection >= 1 /\ lpc' = "recv") =>
                /\ connection' = connection + 1
                /\ connection' \in sockets'
                /\ Len(sent') = 4
                /\ <<sent'[1][1], sent'[2][1], sent'[3][1]>>
                      = <<"CAP REQ", "PASS", "NICK">>
                /\ sent'[4] = <<"JOIN", " ", "#", "sumz5">>]_vars

C14_Witness ==
    /\ entry = "live" /\ lpc = "recv" /\ connection = 2 /\ 2 \in sockets
    /\ Len(sent) = 4 /\ pos > 0

\* C15: an error of the transport while the connection is made is retried:
\* the attempts in a row are at most max_attempts, RetriesExceeded is what
\* is raised when they all fail, and nothing else leaves create_connection.
C15_BoundedReconnection ==
    /\ [](entry = "live" /\ max_attempts # NoneV
             => connect_attempts <= max_attempts.i)
    /\ [][(entry = "live" /\ lpc = "connect" /\ raised' # raised) =>
             /\ raised' = "RetriesExceeded"
             /\ max_attempts # NoneV /\ connect_attempts' = max_attempts.i]_vars

\* C16: a read that brings the end of the server's ping sentinel, wherever
\* the chunks were cut, writes the pong in the same step, before the next read.
C16_PongReply ==
    [][(entry = "live" /\ pos' > pos /\
        \E j \in (pos + 1)..pos' :
            /\ j >= Len(_PING_TEXT)
            /\ SubSeq(stream, j - Len(_PING_TEXT) + 1, j) = _PING_TEXT)
          => sent' = <<_PONG_TEXT>>]_vars

\* C17: in a turn of the loop that finds more than ping_every seconds gone
\* since the client's last ping, the client writes PING, also when the read
\* of that turn timed out.
C17_ProactiveKeepalive ==
    [][(/\ entry = "live"
        /\ clock' - last_ping_time > ping_every
        /\ lpc = "ping" \/ time_since_last_message' > time_since_last_message)
          => sent' = <<<<"PING">>>> /\ last_ping_time' = clock']_vars

\* C18: on one connection a join_channel whose lower-cased name is that of
\* the call before writes nothing; any other call writes the JOIN of the
\* lower-cased name, and the lower-cased name is what is remembered.
C18_JoinIdempotent ==
    [][(entry = "irc" /\ calls' # calls) =>
          LET n == Len(calls')
              lower == LowerWord(calls'[n])
          IN  /\ sent' = IF n > 1 /\ LowerWord(calls'[n - 1]) = lower
                         THEN <<>> ELSE <<<<"JOIN", " ", "#", lower>>>>
              /\ _CURRENT_CHANNEL' = StrV(<<lower>>)]_vars

C18_Witness ==
    /\ entry = "irc" /\ Len(calls) = 2 /\ calls[1] # calls[2]
    /\ LowerWord(calls[1]) = LowerWord(calls[2]) /\ sent = <<>>

\* C19: on both paths, once the deadline is exceeded no blocking step (a
\* read, a connection attempt, a page request) is started: the step taken
\* where one is due raises the timeout failure.
C19_CooperativeCancellation ==
    [][(/\ check_for_timeout(get_param_value(params, "timeout"))
        /\ \/ entry = "live" /\ lpc \in {"connect", "recv"}
           \/ entry = "replay" /\ rpc = "fetch")
          => raised' = "TimeoutException"]_vars

\* C20: every page request carries start_time + offset as its playback
\* offset; the first carries the empty cursor and each later one the next
\* cursor of the page received before it; a page whose next cursor is empty
\* or absent is followed by no request.
C20_Pagination ==
    [][entry = "replay" =>
          /\ (rpc = "fetch" /\ raised' # "TimeoutException") =>
                /\ url'.cursor = info.next
                /\ url'.content_offset_seconds =
                      (IF Truthy(get_param_value(params, "start_time"))
                       THEN get_param_value(params, "start_time").i ELSE 0)
                      + offset
          /\ rpc # "fetch" => url' = url
          /\ (rpc = "page" /\ rpc' = "fetch") => info.next # 0]_vars

C20_Witness ==
    /\ entry = "replay" /\ rpc = "page" /\ url.cursor = 2
    /\ url.content_offset_seconds = 4 /\ info.next = 1

\* C21: a page response that carries an error payload raises TwitchError in
\* the step that receives it: no comment of it is taken or yielded, and
\* after it no request is sent and nothing else happens.
C21_BackendError ==
    /\ [](entry = "replay" /\ info.error =>
            /\ raised = "TwitchError" /\ rpc = "raised"
            /\ idx = 0 /\ yielded = NoEvent /\ page_requests = 0)
    /\ [][~(entry = "replay" /\ raised = "TwitchError")]_vars

C21_Witness ==
    /\ entry = "replay" /\ info.error /\ raised = "TwitchError"
    /\ url.cursor > 0 /\ data # NoEvent

\* The texts of the lines of toks that start with "@", in order.
ArrivedBodies(toks) ==
    LET lines == Split(toks, LF)
        IsEvent(l) == Len(l) >= 2 /\ l[1] = "@" /\ l[Len(l)] = CR
        events == SelectSeq(lines, IsEvent)
    IN  [k \in 1..Len(events) |-> <<events[k][Len(events[k]) - 1]>>]

RECURSIVE IsSubseq(_, _)
IsSubseq(a, b) ==
    IF a = <<>> THEN TRUE
    ELSE IF b = <<>> THEN FALSE
    ELSE IF Head(a) = Head(b) THEN IsSubseq(Tail(a), Tail(b))
    ELSE IsSubseq(a, Tail(b))

\* The texts of the chat messages among the matches handed to the parser.
HandedBodies ==
    LET IsChat(m) == m.g2 = <<"PRIVMSG">>
        chat_ == SelectSeq(handed, IsChat)
    IN  [k \in 1..Len(chat_) |-> chat_[k].g3]

\* C23: events are yielded in order.  On the live path the matches go to the
\* parser in the order their lines arrived, and an event is yielded in the
\* step that parses its match.  On the replay path an event is yielded in
\* the step that takes its record, records are taken one by one, and of two
\* records taken one after the other the later has no smaller
\* time_in_seconds when the backend gave it no smaller time.
C23_Ordering ==
    /\ [](entry = "live" =>
            IsSubseq(HandedBodies, ArrivedBodies(SubSeq(stream, 1, pos))))
    /\ [][(entry = "live" /\ yielded' # NoEvent) =>
             /\ handed' = Append(handed, Head(matches))
             /\ yielded' = LiveEvent]_vars
    /\ [][(entry = "replay" /\ yielded' # NoEvent) =>
             idx' = idx + 1 /\ yielded' = data']_vars
    /\ [][(/\ entry = "replay" /\ idx' = idx + 1
           /\ comment # NoComment /\ ~IsRaise(data) /\ ~IsRaise(data')
           /\ "content_offset_seconds" \in DOMAIN comment
           /\ "content_offset_seconds" \in DOMAIN comment'
           /\ comment["content_offset_seconds"].i
                 <= comment'["content_offset_seconds"].i)
             => time_in_seconds(data.d) <= time_in_seconds(data'.d)]_vars

C23_Witness ==
    /\ entry = "replay" /\ yielded # NoEvent /\ url.cursor > 0 /\ offset > 0
    /\ time_in_seconds(yielded.d) > 0

\* C24: a tag value its transform cannot parse (a tmi-sent-ts, a slow or a
\* ban-duration that is no number) never makes the parser raise: the event
\* is built with its other fields.
C24_BadField ==
    (entry = "parse" /\ parsed # NotParsed /\ parsed # NoMatch) =>
        ~IsRaise(parsed) /\ "message_type" \in DOMAIN parsed.d

\* The message type a live line's own tokens stand for: the msg-id tag's
\* value when the line has one, else the action token, each through its
\* remapping when the remapping knows it and as it stands when it does not.
LineMessageType ==
    LET msg_id == Join(TagValue("msg-id"))
        action == Join(LineMatch.g2)
    IN  IF HasTag("msg-id")
        THEN IF msg_id \in DOMAIN _MESSAGE_TYPE_REMAPPING
             THEN StrV(<<_MESSAGE_TYPE_REMAPPING[msg_id]>>)
             ELSE StrV(TagValue("msg-id"))
        ELSE IF action \in DOMAIN _ACTION_TYPE_REMAPPING
             THEN StrV(<<_ACTION_TYPE_REMAPPING[action]>>)
             ELSE StrV(LineMatch.g2)

\* Whether the comment taken carries a msg-id parameter.
CommentHasMsgId ==
    LET message == DictGet(comment, "message")
        user_notice_params == DictGet(message.d, "user_notice_params")
    IN  /\ message.t = "dict" /\ user_notice_params.t = "dict"
        /\ Truthy(DictGet(user_notice_params.d, "msg-id"))

\* C26: every event has a message_type: on the live path the remapped msg-id
\* when the line has a msg-id tag, else the remapped action type, an unknown
\* msg-id or action token being kept as it stands; on the replay path
\* text_message when the comment has no msg-id parameter.
C26_MessageType ==
    /\ (entry = "parse" /\ Parsed) =>
          /\ "message_type" \in DOMAIN parsed.d
          /\ parsed.d["message_type"] = LineMessageType
    /\ (entry = "replay" /\ comment # NoComment /\ ~IsRaise(data)) =>
          /\ "message_type" \in DOMAIN data.d
          /\ ~CommentHasMsgId => data.d["message_type"] = StrV(<<"text_message">>)

\* C26, amended: as C26, but a CLEARCHAT line with a body is a ban, whatever
\* its tags: its message type is ban_user.
C26_Amended ==
    /\ (entry = "parse" /\ Parsed) =>
          /\ "message_type" \in DOMAIN parsed.d
          /\ parsed.d["message_type"] =
                IF LineMatch.g2 = <<"CLEARCHAT">> /\ LineMatch.g3 # <<>>
                THEN StrV(<<"ban_user">>) ELSE LineMessageType
    /\ (entry = "replay" /\ comment # NoComment /\ ~IsRaise(data)) =>
          /\ "message_type" \in DOMAIN data.d
          /\ ~CommentHasMsgId => data.d["message_type"] = StrV(<<"text_message">>)
C26_Witness ==
    /\ entry = "parse" /\ Parsed
    /\ HasTag("msg-id") /\ TagValue("msg-id") = <<"mystery-id">>
    /\ LineMatch.g2 = <<"WHISPER">>
    /\ parsed.d["message_type"] = StrV(<<"mystery-id">>)

\* The positions of the live client, and the moves between them: connecting
\* (Disconnected, Reconnecting), reading and handling (Streaming), stopped.
LiveMoves ==
    {<<"connect", "connect">>, <<"connect", "recv">>, <<"connect", "raised">>,
     <<"recv", "for">>, <<"recv", "ping">>, <<"recv", "connect">>,
     <<"recv", "raised">>, <<"for", "for">>, <<"for", "ping">>,
     <<"for", "raised">>, <<"ping", "recv">>}

\* C28: the live client moves only along connect, join, stream, reconnect,
\* stop: a new connection gets the three handshake lines and then the JOIN
\* before anything is read from it, a read is only made on a connection so
\* prepared, and once the loop has stopped nothing is read, sent or yielded.
C28_StateMachine ==
    /\ [][entry = "live" => <<lpc, lpc'>> \in LiveMoves]_vars
    /\ [][(entry = "live" /\ connection' # connection) =>
            /\ lpc = "connect" /\ lpc' = "recv"
            /\ connection' = connection + 1 /\ connection' \in sockets'
            /\ pos' = pos /\ clock' = clock
            /\ sent' = <<<<"CAP REQ", " ", ":", "twitch.tv/tags", " ",
                           "twitch.tv/commands", " ", "twitch.tv/membership">>,
                         <<"PASS", " ", "SCHMOOPIIE">>,
                         <<"NICK", " ", "justinfan67420">>,
                         <<"JOIN", " ", "#", "sumz5">>>>]_vars
    /\ [][(entry = "live" /\ (pos' # pos \/ clock' # clock)) =>
            lpc = "recv" /\ connection >= 1 /\ connection \in sockets]_vars
    /\ [](entry = "live" /\ lpc \in {"recv", "for", "ping"} =>
            connection >= 1 /\ _CURRENT_CHANNEL = StrV(<<"sumz5">>))
    /\ [][~(entry = "live" /\ lpc = "raised")]_vars
C28_Witness ==
    /\ entry = "live" /\ lpc = "raised" /\ connection = 2
    /\ pos = Len(stream) /\ handed # <<>>

\* The readbuffer a read step matches: what was kept, then what the read gave.
ReadBufferRead == readbuffer \o Slice(stream, pos + 1, pos' + 1)

\* C29: when the buffer read does not end with CR LF and has no CR LF from the
\* start of its last match on, that match is not handed on in this cycle and
\* the buffer kept starts at that match; and every match handed on is
\* followed by CR LF in what has been received.
C29_NoTruncatedLine ==
    [][(entry = "live" /\ pos' # pos) =>
        LET rb == ReadBufferRead
            all == FindIter(rb, 1)
            last == all[Len(all)]
        IN  /\ (/\ all # <<>> /\ ~EndsWithCRLF(rb)
                /\ ~Contains2(Slice(rb, last.start, Len(rb) + 1), CR, LF)) =>
                    /\ matches' = [k \in 1..(Len(all) - 1) |-> Groups(all[k])]
                    /\ readbuffer' = Slice(rb, last.start, Len(rb) + 1)
            /\ Len(matches') <= Len(all)
            /\ \A k \in 1..Len(matches') :
                    /\ matches'[k] = Groups(all[k])
                    /\ Contains2(Slice(rb, all[k].end, Len(rb) + 1), CR, LF)]_vars

\* C30: when after a read nothing in the buffer matches and the buffer holds
\* a CR LF, the buffer is emptied.
C30_NoiseDiscarded ==
    [][(entry = "live" /\ pos' # pos) =>
        LET rb == ReadBufferRead
        IN  (FindIter(rb, 1) = <<>> /\ Contains2(rb, CR, LF)) =>
                readbuffer' = <<>>]_vars

-----------------------------------------------------------------------------
(* The badge catalog: TwitchChatDownloader.__init__ and the lookup of      *)
(* parse_badge_info, for several instances in one process.                 *)

MaxInstances == 3     \* at most MaxInstances downloaders are constructed

\* What the badge endpoint's badge_sets may be at a later fetch.
_BADGE_INFO_later ==
    ("moderator" :> ("1" :> [title |-> "Mod", description |-> "Channel moderator",
                             image_url |-> "badges/v1/51f4d3a7/", id |-> "51f4d3a7",
                             click_action |-> "none", click_url |-> ""])) @@
    ("vip" :> ("1" :> [title |-> "VIP", description |-> "VIP",
                       image_url |-> "badges/v1/b817aba4/", id |-> "b817aba4",
                       click_action |-> "none", click_url |-> ""]))

\* line 112-113: self._session_get_json(_BADGE_INFO_URL).get('badge_sets') or {}
\* for the answers the endpoint may give (one has no badge_sets)
BadgeCatalogs == {EmptyDict, _BADGE_INFO, _BADGE_INFO_later}

\* The badges looked up.
BadgeNames == {"moderator", "vip"}
BadgeVersions == {"1", "2"}

\* lines 1034-1035: multi_get(catalog, name, 'versions', version) or {}
new_badge_info(catalog, name, version) ==
    IF name \in DOMAIN catalog /\ version \in DOMAIN catalog[name]
    THEN catalog[name][version] ELSE EmptyDict

InitBadges ==
    /\ entry = "badges"
    /\ handler = NoHandler /\ chat = NoChat
    /\ class_BADGE_INFO = EmptyDict          \* line 104
    /\ fetched = <<>> /\ resolved = NoBadge
    /\ params = NoParams
    /\ IdleParse /\ IdleLive /\ IdleReplay /\ IdleSubs /\ IdleOut

\* lines 108-113: TwitchChatDownloader(): the catalog fetched is assigned to
\* the attribute of the class
Construct ==
    /\ entry = "badges" /\ Len(fetched) < MaxInstances
    /\ \E badge_sets \in BadgeCatalogs :
          /\ class_BADGE_INFO' = badge_sets
          /\ fetched' = Append(fetched, badge_sets)
    /\ UNCHANGED <<entry, subsVars, handler, chat, resolved, parseVars, liveVars,
                   replayVars, calls, clock, params, yielded, raised>>

\* lines 1034-1035: an instance resolves a badge; parse_badge_info is a
\* static method that reads the attribute of the class
ResolveBadge ==
    /\ entry = "badges"
    /\ \E instance \in 1..Len(fetched), name \in BadgeNames,
          version \in BadgeVersions :
          resolved' = [instance |-> instance, name |-> name, version |-> version,
                       badge |-> new_badge_info(class_BADGE_INFO, name, version)]
    /\ UNCHANGED <<entry, subsVars, handler, chat, class_BADGE_INFO, fetched, parseVars,
                   liveVars, replayVars, calls, clock, params, yielded, raised>>

NextBadges == Construct \/ ResolveBadge

SpecBadges == InitBadges /\ [][NextBadges]_vars

\* C25: what an instance resolves a badge to is what the catalog fetched at
\* that instance's construction holds for it, whatever other instances were
\* constructed or used since.
C25_ReadOnlyCatalog ==
    (entry = "badges" /\ resolved # NoBadge) =>
        resolved.badge = new_badge_info(fetched[resolved.instance],
                                        resolved.name, resolved.version)

-----------------------------------------------------------------------------
(* get_chat: the dispatch on the URL and the three functions it calls.  A  *)
(* URL is a sequence of tokens: the scheme, the parts of the host, and the *)
(* words and separators of the path and the query.                         *)

\* [^/]+ , [^/#?]+ and [^/?#&]+ : where a greedy run from i of tokens outside
\* stops ends
RECURSIVE RunEnd(_, _, _)
RunEnd(u, i, stops) ==
    IF i > Len(u) \/ u[i] \in stops THEN i ELSE RunEnd(u, i + 1, stops)

At(u, i) == IF i \in 1..Len(u) THEN u[i] ELSE ""

\* \d+
Digits == {"123", "6528877"}

\* https?://(?:(?:www|go|m)\.)?twitch\.tv/ : the position after it, 0 when
\* the URL does not start so
AfterSite(u) ==
    IF At(u, 1) \notin {"https://", "http://"} THEN 0
    ELSE IF At(u, 2) = "twitch.tv" /\ At(u, 3) = "/" THEN 4
    ELSE IF At(u, 2) \in {"www.", "go.", "m."} /\ At(u, 3) = "twitch.tv"
            /\ At(u, 4) = "/" THEN 5
    ELSE 0

\* https?://sub\.twitch\.tv/ for the one sub-domain sub
AfterHost(u, sub) ==
    IF /\ At(u, 1) \in {"https://", "http://"} /\ At(u, 2) = sub
       /\ At(u, 3) = "twitch.tv" /\ At(u, 4) = "/"
    THEN 5 ELSE 0

\* \?.*?\bkey from i: the position after the first key that a separator
\* precedes and that one of the positions rest follows, 0 when there is none
AfterKey(u, i, key, rest) ==
    LET ks == {k \in (i + 1)..Len(u) :
                  /\ u[k] = key /\ u[k - 1] \in {"?", "&", "#", "/"}
                  /\ k + 1 \in rest}
    IN  IF At(u, i) = "?" /\ ks # {} THEN Min(ks) + 1 ELSE 0

\* _VALID_VOD_URL (lines 138-146): group id of re.search, <<>> without a match
Search_VALID_VOD_URL(u) ==
    LET h == AfterSite(u)
        j == RunEnd(u, h, {"/"})
        p == AfterHost(u, "player.")
        IdAt(k) == At(u, k) \in Digits \/ (At(u, k) = "v" /\ At(u, k + 1) \in Digits)
        q == AfterKey(u, p, "video=", {k \in 1..Len(u) : IdAt(k)})
    IN  IF h > 0 /\ j > h /\ At(u, j) = "/" /\ At(u, j + 1) \in {"v", "video"}
           /\ At(u, j + 2) = "/" /\ At(u, j + 3) \in Digits
        THEN <<u[j + 3]>>
        ELSE IF h > 0 /\ At(u, h) = "videos" /\ At(u, h + 1) = "/"
                /\ At(u, h + 2) \in Digits
        THEN <<u[h + 2]>>
        ELSE IF p > 0 /\ q > 0
        THEN IF u[q] = "v" THEN <<u[q + 1]>> ELSE <<u[q]>>
        ELSE <<>>

\* _VALID_CLIPS_URL (lines 149-156)
Search_VALID_CLIPS_URL(u) ==
    LET IdStops == {"/", "?", "#", "&"}
        IdFrom(k) == Slice(u, k, RunEnd(u, k, IdStops))
        HasId(k) == RunEnd(u, k, IdStops) > k
        c == AfterHost(u, "clips.")
        e == IF At(u, c) = "embed" THEN AfterKey(u, c + 1, "clip=", {k \in 1..Len(u) : HasId(k)}) ELSE 0
        \* (?:[^/]+/)* from c, then the id: the last place the id can start
        Segments(k) == \A x \in c..(k - 1) :
                          u[x] = "/" => (x > c /\ u[x - 1] # "/")
        starts == {k \in c..Len(u) :
                      /\ k = c \/ u[k - 1] = "/"
                      /\ Segments(k) /\ HasId(k)}
        h == AfterSite(u)
        j == RunEnd(u, h, {"/"})
    IN  IF c > 0 /\ e > 0 THEN IdFrom(e)
        ELSE IF c > 0 /\ starts # {} THEN IdFrom(Max(starts))
        ELSE IF h > 0 /\ j > h /\ At(u, j) = "/" /\ At(u, j + 1) = "clip"
                /\ At(u, j + 2) = "/" /\ HasId(j + 3)
        THEN IdFrom(j + 3)
        ELSE <<>>

\* _VALID_STREAM_URL (lines 159-166)
Search_VALID_STREAM_URL(u) ==
    LET IdStops == {"/", "#", "?"}
        IdFrom(k) == Slice(u, k, RunEnd(u, k, IdStops))
        HasId(k) == RunEnd(u, k, IdStops) > k
        h == AfterSite(u)
        p == AfterHost(u, "player.")
        q == AfterKey(u, p, "channel=", {k \in 1..Len(u) : HasId(k)})
    IN  IF h > 0 /\ HasId(h) THEN IdFrom(h)
        ELSE IF p > 0 /\ q > 0 THEN IdFrom(q)
        ELSE <<>>

\* re.search(regex, url).group('id')
Search(regex, u) ==
    CASE regex = "_VALID_VOD_URL" -> Search_VALID_VOD_URL(u)
      [] regex = "_VALID_CLIPS_URL" -> Search_VALID_CLIPS_URL(u)
      [] regex = "_VALID_STREAM_URL" -> Search_VALID_STREAM_URL(u)

\* a map that tries the channel shape first
_REGEX_FUNCTION_MAP_stream_first ==
    <<<<"_VALID_STREAM_URL", "get_chat_by_stream_id">>,
      <<"_VALID_VOD_URL", "get_chat_by_vod_id">>,
      <<"_VALID_CLIPS_URL", "get_chat_by_clip_id">>>>

\* lines 825-829
_REGEX_FUNCTION_MAP ==
    <<<<"_VALID_VOD_URL", "get_chat_by_vod_id">>,
      <<"_VALID_CLIPS_URL", "get_chat_by_clip_id">>,
      <<"_VALID_STREAM_URL", "get_chat_by_stream_id">>>>

\* lines 1424-1429: the function the loop calls and its argument; the loop
\* ends with no call when no regex matches, and get_chat returns None
Dispatch(u) ==
    LET hits == {k \in 1..Len(_REGEX_FUNCTION_MAP) :
                    Search(_REGEX_FUNCTION_MAP[k][1], u) # <<>>}
        first == _REGEX_FUNCTION_MAP[Min(hits)]
    IN  IF hits = {} THEN [function_name |-> "None", id |-> "", answer |-> NoneV]
        ELSE [function_name |-> first[2], id |-> Join(Search(first[1], u)),
              answer |-> NoneV]

\* The URLs get_chat is called with.
Urls ==
    {<<"https://", "www.", "twitch.tv", "/", "videos", "/", "123">>,
     <<"http://", "www.", "twitch.tv", "/", "riotgames", "/", "v", "/", "6528877",
       "?", "t=", "5m10s">>,
     <<"https://", "player.", "twitch.tv", "/", "?", "video=", "v", "123">>,
     <<"https://", "clips.", "twitch.tv", "/", "FaintLightGullWholeWheat">>,
     <<"https://", "clips.", "twitch.tv", "/", "embed", "?", "clip=",
       "FaintLightGullWholeWheat", "&", "autoplay=", "false">>,
     <<"https://", "m.", "twitch.tv", "/", "sumz5", "/", "clip", "/",
       "FaintLightGullWholeWheat">>,
     <<"http://", "www.", "twitch.tv", "/", "shroomztv">>,
     <<"https://", "twitch.tv", "/", "Sumz5", "/", "videos">>,
     <<"https://", "player.", "twitch.tv", "/", "?", "channel=", "sumz5">>,
     <<"https://", "example.com", "/", "sumz5">>}

\* utils.multi_get(dictionary, key1, key2): None when a key is missing or
\* what is found on the way is no dict
multi_get(dictionary, key1, key2) ==
    IF dictionary.t = "dict" /\ DictGet(dictionary.d, key1).t = "dict"
    THEN DictGet(DictGet(dictionary.d, key1).d, key2)
    ELSE NoneV

\* What the backend answers to the metadata query of each function.
VideoAnswers ==
    {NoneV,                                        \* there is no such video
     DictV(("title" :> StrV(<<"title">>)) @@ ("lengthSeconds" :> NumV(3)))}
ClipAnswers ==
    {DictV(("video" :> v) @@ ("videoOffsetSeconds" :> NumV(1)) @@
           ("durationSeconds" :> NumV(2)) @@ ("title" :> StrV(<<"title">>))) :
        v \in {NoneV,                              \* the parent video is deleted
               DictV("id" :> StrV(<<"123">>))}}
StreamAnswers ==
    {DictV("stream" :> NoneV),                     \* the channel is offline
     DictV("stream" :> DictV("type" :> StrV(<<"live">>)))}

Answers(function_name) ==
    CASE function_name = "get_chat_by_vod_id" -> VideoAnswers
      [] function_name = "get_chat_by_clip_id" -> ClipAnswers
      [] function_name = "get_chat_by_stream_id" -> StreamAnswers
      [] OTHER -> {}

\* What a function gives: the Chat it returns, or the exception's name.
Returned(c) == [chat |-> c, raised |-> ""]
Raised(name) == [chat |-> NoChat, raised |-> name]

\* lines 956-966, on the video the loop of lines 949-954 got
get_chat_by_vod_id(vod_id, video) ==
    IF video.t # "dict" THEN Raised("AttributeError")      \* None.get
    ELSE Returned([generator |-> "_get_chat_messages_by_vod_id", id |-> vod_id,
                   offset |-> 0, max_duration |-> NoneV,
                   duration |-> DictGet(video.d, "lengthSeconds"),
                   is_live |-> FALSE])

\* a clip function that does not look at the parent video
get_chat_by_clip_id_unchecked(clip_id, clip) ==
    Returned([generator |-> "_get_chat_messages_by_vod_id",
              id |-> Join(multi_get(clip, "video", "id").s),
              offset |-> DictGet(clip.d, "videoOffsetSeconds").i,
              max_duration |-> DictGet(clip.d, "durationSeconds"),
              duration |-> DictGet(clip.d, "durationSeconds"),
              is_live |-> FALSE])

\* lines 986-1003, on the clip the loop of lines 979-984 got
get_chat_by_clip_id(clip_id, clip) ==
    LET vod_id == multi_get(clip, "video", "id")
    IN  IF vod_id = NoneV THEN Raised("NoChatReplay")
        ELSE Returned([generator |-> "_get_chat_messages_by_vod_id",
                       id |-> Join(vod_id.s),
                       offset |-> DictGet(clip.d, "videoOffsetSeconds").i,
                       max_duration |-> DictGet(clip.d, "durationSeconds"),
                       duration |-> DictGet(clip.d, "durationSeconds"),
                       is_live |-> FALSE])

\* lines 1408-1420, on the user the loop of lines 1401-1406 got
get_chat_by_stream_id(stream_id_, stream_info) ==
    Returned([generator |-> "_get_chat_messages_by_stream_id", id |-> stream_id_,
              offset |-> 0, max_duration |-> NoneV, duration |-> NoneV,
              is_live |-> multi_get(stream_info, "stream", "type") = StrV(<<"live">>)])

\* getattr(self, function_name)(match.group('id'), params), after its query
Call(function_name, id, answer) ==
    CASE function_name = "get_chat_by_vod_id" -> get_chat_by_vod_id(id, answer)
      [] function_name = "get_chat_by_clip_id" -> get_chat_by_clip_id(id, answer)
      [] function_name = "get_chat_by_stream_id" -> get_chat_by_stream_id(id, answer)

ClientParams ==
    {[NoParams EXCEPT !.url = u, !.max_attempts = ma, !.timeout = to] :
        u \in Urls, ma \in {NoneV} \cup {NumV(n) : n \in 1..MaxAttempts},
        to \in {NoneV, NumV(1)}}

InitClient ==
    /\ entry = "client"
    /\ params \in ClientParams
    /\ IdleParse /\ IdleLive /\ IdleReplay /\ IdleClient /\ IdleSubs /\ IdleOut

\* lines 1422-1429: the dispatch, up to the call of the function chosen
GetChat ==
    /\ entry = "client" /\ handler = NoHandler
    /\ handler' = Dispatch(get_param_value(params, "url"))
    /\ UNCHANGED <<entry, subsVars, chat, class_BADGE_INFO, fetched, resolved, parseVars,
                   liveVars, replayVars, calls, clock, params, yielded, raised>>

\* the function chosen gets the answer to its query and returns or raises
Resolve ==
    /\ entry = "client" /\ chat = NoChat /\ raised = ""
    /\ attempts(max_attempts, attempt_number)
    /\ \E answer \in Answers(handler.function_name) :
       \E r \in {Call(handler.function_name, handler.id, answer)} :
          /\ handler' = [handler EXCEPT !.answer = answer]
          /\ chat' = r.chat
          /\ raised' = r.raised
    /\ attempt_number' = 0
    /\ UNCHANGED <<entry, subsVars, class_BADGE_INFO, fetched, resolved, parseVars,
                   liveVars, offset, max_duration, cursor, info, idx, comment,
                   data, page_requests, url, rpc, calls, clock, params, yielded>>

\* the query ends in UnexpectedHTML or RequestException: retry either lets
\* the loop go on or raises
ResolveFail ==
    /\ entry = "client" /\ chat = NoChat /\ raised = ""
    /\ Answers(handler.function_name) # {}
    /\ attempts(max_attempts, attempt_number)
    /\ max_attempts = NoneV => attempt_number < MaxAttempts
    /\ attempt_number' = attempt_number + 1
    /\ raised' = IF IsRaise(retry(attempt_number', max_attempts))
                 THEN "RetriesExceeded" ELSE raised
    /\ UNCHANGED <<entry, subsVars, clientVars, parseVars, liveVars, offset, max_duration,
                   cursor, info, idx, comment, data, page_requests, url, rpc,
                   calls, clock, params, yielded>>

\* the caller asks the Chat for its first item: the generator of
\* _get_chat_messages_by_vod_id starts with the arguments it was made with
Start ==
    /\ entry = "client" /\ chat.generator = "_get_chat_messages_by_vod_id"
    /\ entry' = "replay"
    /\ offset' = chat.offset /\ max_duration' = chat.max_duration
    /\ rpc' = "fetch"
    /\ UNCHANGED <<subsVars, clientVars, parseVars, liveVars, cursor, info, idx, comment,
                   data, attempt_number, page_requests, url, calls, clock,
                   params, yielded, raised>>

NextClient == GetChat \/ Resolve \/ ResolveFail \/ Start \/ NextReplay

SpecClient == InitClient /\ [][NextClient]_vars

\* The clip function got a clip whose parent video has no id.
NoParentVideo ==
    /\ handler.function_name = "get_chat_by_clip_id"
    /\ handler.answer # NoneV
    /\ multi_get(handler.answer, "video", "id") = NoneV

\* C22: when the clip's answer carries no parent video id, get_chat_by_clip_id
\* raises NoChatReplay, returns no Chat, and no page request is made for the
\* clip, then or later.
C22_DeletedParent ==
    /\ [](NoParentVideo =>
            /\ raised = "NoChatReplay" /\ chat = NoChat
            /\ entry = "client" /\ rpc = "idle"
            /\ url = NoUrl /\ page_requests = 0)
    /\ [][~NoParentVideo]_vars
C22_Witness ==
    /\ NoParentVideo /\ raised = "NoChatReplay"
    /\ handler.id = "FaintLightGullWholeWheat"

\* The function and the id that the first of the video, clip and channel
\* shapes the URL matches stands for.
FirstShape ==
    LET u == get_param_value(params, "url")
        vod == Search_VALID_VOD_URL(u)
        clip == Search_VALID_CLIPS_URL(u)
        channel == Search_VALID_STREAM_URL(u)
        F(function_name, id) ==
            [function_name |-> function_name, id |-> Join(id), answer |-> NoneV]
    IN  IF vod # <<>> THEN F("get_chat_by_vod_id", vod)
        ELSE IF clip # <<>> THEN F("get_chat_by_clip_id", clip)
        ELSE IF channel # <<>> THEN F("get_chat_by_stream_id", channel)
        ELSE F("None", <<>>)
ReplayFunctions == {"get_chat_by_vod_id", "get_chat_by_clip_id"}

\* C27: the function get_chat calls is that of the first of the video, clip
\* and channel shapes the URL matches, with the id that shape gives, and no
\* other is called after it; the Chat of a video or of a clip has is_live
\* false and a duration, the Chat of a channel has no duration.
C27_UrlDispatch ==
    /\ [](handler # NoHandler => handler = [FirstShape EXCEPT !.answer = handler.answer])
    /\ [][handler # NoHandler =>
            /\ handler'.function_name = handler.function_name
            /\ handler'.id = handler.id]_vars
    /\ [](chat # NoChat =>
            /\ handler.function_name \in ReplayFunctions =>
                  /\ ~chat.is_live /\ chat.duration # NoneV
                  /\ chat.generator = "_get_chat_messages_by_vod_id"
            /\ handler.function_name \notin ReplayFunctions =>
                  /\ handler.function_name = "get_chat_by_stream_id"
                  /\ chat.duration = NoneV
                  /\ chat.generator = "_get_chat_messages_by_stream_id")
C27_Witness ==
    /\ chat # NoChat /\ handler.function_name = "get_chat_by_vod_id"
    /\ Search_VALID_STREAM_URL(get_param_value(params, "url")) = <<"riotgames">>
    /\ entry = "replay" /\ url # NoUrl

PageRequest ==
    /\ entry = "replay"
    /\ url' # url \/ info' # info \/ page_requests' # page_requests
       \/ clock' # clock \/ (rpc = "fetch" /\ rpc' = "page")

\* C32: a page request is sent only when every comment of the page before
\* has been gone through and the event yielded last has been taken; the
\* comments are taken one by one, and the step that yields sends no request.
C32_NoPrefetch ==
    /\ [][PageRequest =>
            /\ rpc = "fetch" /\ idx = info.comments /\ cursor = info.next
            /\ yielded = NoEvent /\ yielded' = NoEvent]_vars
    /\ [][(entry = "replay" /\ idx' # idx) =>
            \/ idx' = idx + 1 /\ idx < info.comments /\ ~PageRequest
            \/ idx' = 0 /\ PageRequest]_vars
    /\ [][(entry = "replay" /\ yielded' # NoEvent) =>
            idx' = idx + 1 /\ ~PageRequest]_vars
C32_Witness ==
    /\ entry = "replay" /\ url.cursor > 0 /\ info.comments = MaxComments
    /\ idx = info.comments /\ yielded # NoEvent

\* The time of the comment taken, as the backend gave it, less the offset of
\* the clip; and the end of the window: the caller's, else the clip's duration.
CorrectedTime == comment["content_offset_seconds"].i - offset
WindowEnd ==
    IF get_param_value(params, "end_time") # NoneV
    THEN get_param_value(params, "end_time") ELSE max_duration

\* C33: with offset O every page request asks for start_time + O, every
\* event yielded has time_in_seconds = content_offset_seconds - O, and the
\* window is applied to that time, its end being the caller's or else the
\* duration of the clip.
C33_ClipOffset ==
    /\ [](entry = "replay" /\ url # NoUrl =>
            url.content_offset_seconds = start_time.i + offset)
    /\ [](entry = "replay" /\ yielded # NoEvent
            /\ "content_offset_seconds" \in DOMAIN comment =>
                /\ yielded.d["time_in_seconds"] = NumV(CorrectedTime)
                /\ start_time.i <= CorrectedTime
                /\ WindowEnd # NoneV => CorrectedTime <= WindowEnd.i)
    /\ [][(entry = "replay" /\ idx' = idx + 1 /\ ~IsRaise(data')
            /\ "content_offset_seconds" \in DOMAIN comment') =>
                /\ CorrectedTime' < start_time.i =>
                      yielded' = NoEvent /\ rpc' = "page"
                /\ (CorrectedTime' >= start_time.i /\ WindowEnd # NoneV
                      /\ CorrectedTime' > WindowEnd.i) =>
                      yielded' = NoEvent /\ rpc' = "returned"]_vars
C33_Witness ==
    /\ entry = "replay" /\ offset = 1 /\ yielded # NoEvent
    /\ get_param_value(params, "end_time") = NoneV /\ max_duration = NumV(2)
    /\ "content_offset_seconds" \in DOMAIN comment
    /\ comment["content_offset_seconds"] = NumV(3)
    /\ time_in_seconds(yielded.d) = 2 /\ url.content_offset_seconds = 1

\* How many times needle is in text.
RECURSIVE CountIn(_, _)
CountIn(needle, text) ==
    IF Len(text) < Len(needle) THEN 0
    ELSE (IF SubSeq(text, 1, Len(needle)) = needle THEN 1 ELSE 0)
         + CountIn(needle, Tail(text))

\* C34: the pongs the client has written are never more than the pings it
\* has received.
C34_OnePongPerPing ==
    entry = "live" => pongs <= CountIn(_PING_TEXT, SubSeq(stream, 1, pos))

\* C35: at every point of the live retrieval at most one socket is open: when
\* a new connection has been made, the socket of the one before it has been
\* closed.
C35_OneSocket ==
    entry = "live" => Cardinality(sockets) <= 1

\* a record with no message field, with no commenter field, or with a message
\* whose user_notice_params is null
MissingParts(item) ==
    \/ "message" \notin DOMAIN item
    \/ "commenter" \notin DOMAIN item
    \/ /\ "message" \in DOMAIN item
       /\ DictGet(item["message"].d, "user_notice_params") = NoneV

\* C36: for a record with a missing part _parse_item returns an event and
\* raises nothing: the retrieval that has parsed such a record has not ended
\* with an exception.
C36_MissingParts ==
    (entry = "replay" /\ idx > 0 /\ MissingParts(comment)) =>
        (~IsRaise(data) /\ raised = "")

-----------------------------------------------------------------------------
(* The subtitle writer (srt_subtitle_downloader.py): the smoothing of the  *)
(* timestamps and the two functions that make subtitle lines.  A time is a *)
(* whole number of ticks; TicksPerSecond is chosen so that every division  *)
(* the functions make on the inputs below is exact.  A ChatMessage is its  *)
(* TimestampSeconds and its MessageText (the ordinal of the text); Author  *)
(* and Color are carried along like MessageText.                           *)

MaxMessages == 3      \* at most MaxMessages chat messages
MaxSeconds == 4       \* the messages are timed at 0 .. MaxSeconds seconds

RECURSIVE Factorial(_)
Factorial(n) == IF n <= 1 THEN 1 ELSE n * Factorial(n - 1)
\* 2 * n divides TicksPerSecond for every n in 1 .. MaxMessages
TicksPerSecond == 2 * Factorial(MaxMessages)

Returns(value) == [raised |-> "", value |-> value]
Raises(name) == [raised |-> name, value |-> <<>>]

\* lines 89-90 and 158-159: the inner while, from maxIndex (0-based)
RECURSIVE InnerWhile(_, _, _)
InnerWhile(msgs, maxIndex, maxTimestamp) ==
    IF maxIndex + 1 < Len(msgs) /\ msgs[maxIndex + 2].TimestampSeconds < maxTimestamp
    THEN InnerWhile(msgs, maxIndex + 1, maxTimestamp)
    ELSE maxIndex

\* lines 88-97: the outer while of even_spaced_timestamp_filter
RECURSIVE SmoothWhile(_, _, _, _, _, _, _)
SmoothWhile(msgs, interval, minIndex, maxIndex_, minTimestamp, maxTimestamp, lastTimestamp) ==
    IF ~(minTimestamp < lastTimestamp) THEN msgs
    ELSE LET maxIndex == InnerWhile(msgs, maxIndex_, maxTimestamp)
             commentsInInterval == maxIndex - minIndex + 1
             spaced == [j \in 1..Len(msgs) |->
                 IF j - 1 >= minIndex /\ j - 1 <= maxIndex
                 THEN [msgs[j] EXCEPT !.TimestampSeconds =
                          minTimestamp + ((2 * (j - 1 - minIndex) + 1) * interval)
                                             \div (2 * commentsInInterval)]
                 ELSE msgs[j]]
         IN  SmoothWhile(spaced, interval, maxIndex + 1, maxIndex,
                         minTimestamp + interval, maxTimestamp + interval,
                         lastTimestamp)

\* even_spaced_timestamp_filter (lines 77-97): the list as the call leaves it
even_spaced_timestamp_filter(msgs, smoothing_interval_seconds) ==
    IF Len(msgs) = 0 THEN Returns(msgs)
    ELSE IF smoothing_interval_seconds <= 0 THEN Raises("ValueError")
    ELSE Returns(SmoothWhile(msgs, smoothing_interval_seconds, 0, -1, 0,
                             smoothing_interval_seconds,
                             msgs[Len(msgs)].TimestampSeconds))

\* lines that stay on screen for max_seconds_onscreen whatever comes next
parse_srt_lines_unclipped(msgs, max_seconds_onscreen) ==
    IF max_seconds_onscreen <= 0 THEN Raises("ValueError")
    ELSE Returns([j \in 1..Len(msgs) |->
            [Index |-> j - 1,
             StartTimeSeconds |-> msgs[j].TimestampSeconds,
             EndTimeSeconds |-> msgs[j].TimestampSeconds + max_seconds_onscreen,
             MessageText |-> msgs[j].MessageText]])

\* parse_srt_lines (lines 127-140); the next timestamp of the last message is
\* float("inf")
parse_srt_lines(msgs, max_seconds_onscreen) ==
    IF max_seconds_onscreen <= 0 THEN Raises("ValueError")
    ELSE Returns([j \in 1..Len(msgs) |->
            [Index |-> j - 1,
             StartTimeSeconds |-> msgs[j].TimestampSeconds,
             EndTimeSeconds |->
                 IF j < Len(msgs)
                 THEN Min({msgs[j + 1].TimestampSeconds,
                           msgs[j].TimestampSeconds + max_seconds_onscreen})
                 ELSE msgs[j].TimestampSeconds + max_seconds_onscreen,
             MessageText |-> msgs[j].MessageText]])

\* lines 157-174: the outer while of parse_ass_lines
RECURSIVE AssWhile(_, _, _, _, _, _, _, _)
AssWhile(msgs, assLines, limits, minIndex, maxIndex_, minTimestamp, maxTimestamp, lastTimestamp) ==
    IF ~(minTimestamp < lastTimestamp) THEN assLines
    ELSE LET maxIndex == InnerWhile(msgs, maxIndex_, maxTimestamp)
             commentsInInterval == maxIndex - minIndex + 1
             \* lines 162 and 165: max_subtitles_onscreen / (n / interval)
             timeOnscreen ==
                 Min({(limits.max_subtitles_onscreen * limits.grouping_interval_seconds)
                          \div commentsInInterval,
                      limits.max_seconds_onscreen})
             added == [i \in 1..commentsInInterval |->
                 [StartTimeSeconds |-> msgs[minIndex + i].TimestampSeconds,
                  EndTimeSeconds |-> msgs[minIndex + i].TimestampSeconds + timeOnscreen,
                  MessageText |-> msgs[minIndex + i].MessageText]]
         IN  AssWhile(msgs, IF commentsInInterval > 0 THEN assLines \o added
                            ELSE assLines,
                      limits, maxIndex + 1, maxIndex,
                      minTimestamp + limits.grouping_interval_seconds,
                      maxTimestamp + limits.grouping_interval_seconds, lastTimestamp)

\* parse_ass_lines (lines 142-175)
parse_ass_lines(msgs, max_seconds_onscreen, grouping_interval_seconds, max_subtitles_onscreen) ==
    IF max_seconds_onscreen <= 0 THEN Raises("ValueError")
    ELSE IF grouping_interval_seconds <= 0 THEN Raises("ValueError")
    ELSE IF max_subtitles_onscreen <= 0 THEN Raises("ValueError")
    ELSE IF Len(msgs) = 0 THEN Returns(<<>>)
    ELSE Returns(AssWhile(msgs, <<>>,
                          [max_seconds_onscreen |-> max_seconds_onscreen,
                           grouping_interval_seconds |-> grouping_interval_seconds,
                           max_subtitles_onscreen |-> max_subtitles_onscreen],
                          0, -1, 0, grouping_interval_seconds,
                          msgs[Len(msgs)].TimestampSeconds))

\* The lists parse_chat_messages may give: the messages in the order of the
\* chat, timed at whole seconds that do not go down.
ChatMessageLists ==
    UNION {{[j \in 1..n |-> [TimestampSeconds |-> t[j] * TicksPerSecond,
                             MessageText |-> j]] :
               t \in {u \in [1..n -> 0..MaxSeconds] :
                         \A j \in 1..(n - 1) : u[j] <= u[j + 1]}} :
           n \in 0..MaxMessages}

\* The command line (lines 178-189), its numbers in ticks or as counts.
Args ==
    [command : {"srt", "ass"},
     max_seconds_onscreen : {0, TicksPerSecond, 3 * TicksPerSecond},
     smoothing_interval_seconds : {0, TicksPerSecond, 2 * TicksPerSecond},
     max_subtitles_onscreen : {1, 2}]

InitSubs ==
    /\ entry = "subtitles"
    /\ chat_messages \in ChatMessageLists /\ unsmoothed = chat_messages
    /\ subtitle_lines = <<>> /\ args \in Args /\ spc = "parsed"
    /\ params = NoParams
    /\ IdleParse /\ IdleLive /\ IdleReplay /\ IdleClient /\ IdleOut

\* line 193
Smooth ==
    /\ entry = "subtitles" /\ spc = "parsed"
    /\ \E r \in {even_spaced_timestamp_filter(chat_messages,
                                              args.smoothing_interval_seconds)} :
          IF r.raised # ""
          THEN raised' = r.raised /\ spc' = "raised" /\ chat_messages' = chat_messages
          ELSE raised' = raised /\ spc' = "smoothed" /\ chat_messages' = r.value
    /\ UNCHANGED <<entry, unsmoothed, subtitle_lines, args, clientVars, parseVars, liveVars,
                   replayVars, calls, clock, params, yielded>>

\* line 196, on the list as parsed or as smoothed
ParseSrtLines ==
    /\ entry = "subtitles" /\ spc \in {"parsed", "smoothed"} /\ args.command = "srt"
    /\ \E r \in {parse_srt_lines(chat_messages, args.max_seconds_onscreen)} :
          /\ raised' = r.raised
          /\ spc' = IF r.raised # "" THEN "raised" ELSE "srt"
          /\ subtitle_lines' = r.value
    /\ UNCHANGED <<entry, chat_messages, unsmoothed, args, clientVars, parseVars,
                   liveVars, replayVars, calls, clock, params, yielded>>

\* line 198, on the list as parsed or as smoothed
ParseAssLines ==
    /\ entry = "subtitles" /\ spc \in {"parsed", "smoothed"} /\ args.command = "ass"
    /\ \E r \in {parse_ass_lines(chat_messages, args.max_seconds_onscreen,
                                 args.smoothing_interval_seconds,
                                 args.max_subtitles_onscreen)} :
          /\ raised' = r.raised
          /\ spc' = IF r.raised # "" THEN "raised" ELSE "ass"
          /\ subtitle_lines' = r.value
    /\ UNCHANGED <<entry, chat_messages, unsmoothed, args, clientVars, parseVars,
                   liveVars, replayVars, calls, clock, params, yielded>>

NextSubs == Smooth \/ ParseSrtLines \/ ParseAssLines

SpecSubs == InitSubs /\ [][NextSubs]_vars

\* C37: parse_ass_lines gives one line per message, in the order of the
\* messages: the texts of the lines are the texts of the messages.
C37_AssLinePerMessage ==
    (entry = "subtitles" /\ spc = "ass") =>
        /\ Len(subtitle_lines) = Len(chat_messages)
        /\ \A j \in 1..Len(subtitle_lines) :
              /\ subtitle_lines[j].MessageText = chat_messages[j].MessageText
              /\ subtitle_lines[j].StartTimeSeconds = chat_messages[j].TimestampSeconds

\* C38: parse_srt_lines gives one line per message, with the position of the
\* message (from 0) as its Index and the timestamp as its start; a line ends
\* at the next message's timestamp or max_seconds_onscreen after its start,
\* whichever is first: not before its start, not after the next line starts
\* and not more than max_seconds_onscreen after its start.
C38_SrtLines ==
    (entry = "subtitles" /\ spc = "srt") =>
        /\ Len(subtitle_lines) = Len(chat_messages)
        /\ \A j \in 1..Len(subtitle_lines) :
              /\ subtitle_lines[j].Index = j - 1
              /\ subtitle_lines[j].MessageText = chat_messages[j].MessageText
              /\ subtitle_lines[j].StartTimeSeconds = chat_messages[j].TimestampSeconds
              /\ subtitle_lines[j].StartTimeSeconds <= subtitle_lines[j].EndTimeSeconds
              /\ subtitle_lines[j].EndTimeSeconds
                    <= subtitle_lines[j].StartTimeSeconds + args.max_seconds_onscreen
              /\ j < Len(subtitle_lines) =>
                    /\ subtitle_lines[j].EndTimeSeconds
                          <= subtitle_lines[j + 1].StartTimeSeconds
                    /\ \/ subtitle_lines[j].EndTimeSeconds
                             = subtitle_lines[j + 1].StartTimeSeconds
                       \/ subtitle_lines[j].EndTimeSeconds
                             = subtitle_lines[j].StartTimeSeconds
                                  + args.max_seconds_onscreen
              /\ j = Len(subtitle_lines) =>
                    subtitle_lines[j].EndTimeSeconds
                       = subtitle_lines[j].StartTimeSeconds + args.max_seconds_onscreen

\* three lines: the first ends when the second starts, the second and the
\* third after max_seconds_onscreen
C38_Witness ==
    /\ entry = "subtitles" /\ spc = "srt" /\ Len(subtitle_lines) = 3
    /\ args.max_seconds_onscreen = TicksPerSecond
    /\ subtitle_lines[1].EndTimeSeconds = subtitle_lines[2].StartTimeSeconds
    /\ subtitle_lines[1].EndTimeSeconds
          < subtitle_lines[1].StartTimeSeconds + args.max_seconds_onscreen
    /\ subtitle_lines[2].EndTimeSeconds < subtitle_lines[3].StartTimeSeconds
    /\ subtitle_lines[3].Index = 2

\* the messages of the list as parsed that are in the smoothing interval of
\* the j-th
SameInterval(j) ==
    {m \in 1..Len(unsmoothed) :
        unsmoothed[m].TimestampSeconds \div args.smoothing_interval_seconds
          = unsmoothed[j].TimestampSeconds \div args.smoothing_interval_seconds}

\* C39: after even_spaced_timestamp_filter every message is in the smoothing
\* interval it was in, the n messages of the interval [k*I, (k+1)*I) are at
\* k*I + (2i+1)*I/(2n) for i = 0..n-1, and the timestamps do not go down.
C39_EvenSpaced ==
    (entry = "subtitles" /\ spc = "smoothed") =>
        /\ Len(chat_messages) = Len(unsmoothed)
        /\ \A j \in 1..Len(chat_messages) :
              \E k \in {unsmoothed[j].TimestampSeconds
                           \div args.smoothing_interval_seconds} :
                 /\ chat_messages[j].TimestampSeconds
                       >= k * args.smoothing_interval_seconds
                 /\ chat_messages[j].TimestampSeconds
                       < (k + 1) * args.smoothing_interval_seconds
                 /\ chat_messages[j].TimestampSeconds
                       = k * args.smoothing_interval_seconds
                         + ((2 * (j - Min(SameInterval(j))) + 1)
                               * args.smoothing_interval_seconds)
                           \div (2 * Cardinality(SameInterval(j)))
        /\ \A j \in 1..(Len(chat_messages) - 1) :
              chat_messages[j].TimestampSeconds <= chat_messages[j + 1].TimestampSeconds

====
